---- MODULE Spec2Model ----
(***************************************************************************)
(* A model of flowviz's AI provider layer: BaseProvider, ClaudeProvider,   *)
(* OpenAIProvider and OllamaProvider.  stream() relays an upstream         *)
(* response to an Express response object (the sink) as server-sent        *)
(* events; formatPrompt() builds the prompt sent upstream.                 *)
(*                                                                         *)
(* Spec        two stream() calls on one provider instance, each with its  *)
(*             own upstream and its own sink, interleaved freely.          *)
(* SpecPrompt  formatPrompt() applied to bounded inputs.                   *)
(* SpecRegistry    ProviderFactory over a changing environment.            *)
(* SpecConfigured  isConfigured() while the environment changes.           *)
(* SpecVision      analyzeVision() and getVisionModel().                   *)
(***************************************************************************)
EXTENDS Integers, Sequences, FiniteSets, TLC

\* Bounds of the model.
MaxEvents == 3      \* data chunks read from the upstreams, over all calls
Slack == 1          \* how far the input lengths go around a length limit
MaxImages == 2      \* the longest images array analyzeVision is called with

\* Program constants.
MaxPromptChars == 50000   \* finalText.substring(0, 50000)
VisionContextChars == 1000   \* articleText.substring(0, 1000)
Hdr1Len == 27             \* '## Image Analysis Results\n\n'
Hdr2Len == 19             \* '\n\n## Article Text\n\n'
PersonaLen == 56          \* "You are an expert in cyber threat intelligence analysis."

Calls == {1, 2}
Providers == {"claude", "openai", "ollama"}

VARIABLES
  provider,   \* which class the provider instance is
  inst,       \* the instance's fields (this.apiKey, this.model, ...)
  phase,      \* per call: where stream() is
  outcome,    \* per call: the promise stream() returned
  ups,        \* per call: the upstream: how the request ended, then the body / iterator
  up,         \* per call: the chunks read from the upstream so far
  sink,       \* per call: what has been passed to res.write, in order
  closed,     \* per call: the caller's connection has closed
  req,        \* per call: the request sent upstream
  fpIn,       \* SpecPrompt: the arguments of formatPrompt
  fpOut,      \* SpecPrompt: its result
  env,        \* process.env
  ret,        \* SpecRegistry: the last call made, its arguments and its result
  seen,       \* SpecRegistry: what isConfigured() first returned on the instance
  fetched,    \* useProviderConfig: the query's data, <<>> while it is undefined
  selectedProvider,        \* useProviderConfig: its state, <<>> for null
  selectedModel,           \* useProviderConfig: its state, <<>> for null
  props,                   \* SettingsDialog: the props of the last render
  localCinematicMode,      \* SettingsDialog: its local state
  localEdgeColor,
  localEdgeStyle,
  localEdgeCurve,
  localStoryModeSpeed,
  localSelectedProvider,
  localSelectedModel,
  deps,       \* SettingsDialog: the dependencies the effects last ran with
  rendered,   \* SettingsDialog: a render is waiting for its effects
  called,     \* SettingsDialog: the parent's callbacks the last step invoked
  picked,     \* SettingsDialog: the model picked in the dropdown since the
              \* dialog's values were last saved, cancelled or handed down
  switched    \* useProviderConfig: setSelectedProvider has been called

hookVars == <<fetched, selectedProvider, selectedModel>>
localVars == <<localCinematicMode, localEdgeColor, localEdgeStyle, localEdgeCurve,
               localStoryModeSpeed, localSelectedProvider, localSelectedModel>>
uiVars == <<hookVars, props, localVars, deps, rendered, called, picked, switched>>
vars == <<provider, inst, phase, outcome, ups, up, sink, closed, req, fpIn, fpOut,
          env, ret, seen, uiVars>>
regVars == <<env, ret, seen>>
streamVars == <<provider, inst, phase, outcome, ups, up, sink, closed, req>>

(***************************************************************************)
(* JavaScript strings.  A string is kept as the sequence of the pieces it  *)
(* was put together from, each piece a source and a number of characters   *)
(* taken from the start of that source; no piece is empty.                 *)
(***************************************************************************)
Str(src, n) == IF n > 0 THEN <<[src |-> src, len |-> n]>> ELSE <<>>

RECURSIVE StrLen(_)
StrLen(s) == IF s = <<>> THEN 0 ELSE Head(s).len + StrLen(Tail(s))

\* s.substring(0, n)
RECURSIVE Substring0(_, _)
Substring0(s, n) ==
  IF s = <<>> \/ n <= 0 THEN <<>>
  ELSE IF Head(s).len >= n THEN <<[src |-> Head(s).src, len |-> n]>>
  ELSE <<Head(s)>> \o Substring0(Tail(s), n - Head(s).len)

\* A value that is a string, undefined or null.
Undefined == [t |-> "undefined", s |-> <<>>]
Null == [t |-> "null", s |-> <<>>]
JsStr(s) == [t |-> "string", s |-> s]
Truthy(v) == v.t = "string" /\ v.s # <<>>

Hdr1 == Str("## Image Analysis Results", Hdr1Len)
Hdr2 == Str("## Article Text", Hdr2Len)
DefaultPersona == Str("persona", PersonaLen)

(***************************************************************************)
(* What res.write receives.  A frame written by sendSSE is the line        *)
(* 'data: <json>\n\n' and is kept as the object's type and text; the       *)
(* completion line is 'data: [DONE]\n\n'; a chunk written as it came is    *)
(* kept whole in raw.                                                      *)
(***************************************************************************)
\* A write that goes to a response object kept on the instance, the one of
\* the first call.
writeShared(sk, c, frame) == [sk EXCEPT ![1] = Append(@, frame)]

write(sk, c, frame) == [sk EXCEPT ![c] = Append(@, frame)]

sendSSE(sk, c, data) ==
  write(sk, c, [kind |-> data.type, text |-> data.text, raw |-> <<>>])

sendSSEComplete(sk, c) ==
  write(sk, c, [kind |-> "[DONE]", text |-> "", raw |-> <<>>])

sendProgress(sk, c, message) ==
  sendSSE(sk, c, [type |-> "progress", text |-> message])

sendError(sk, c, error) ==
  sendSSE(sk, c, [type |-> "error", text |-> error])

sendContentDelta(sk, c, text) ==
  sendSSE(sk, c, [type |-> "content_block_delta", text |-> text])

writeRaw(sk, c, data) ==
  write(sk, c, [kind |-> "raw", text |-> "", raw |-> data])

\* A promise settles once: resolve() and reject() after that change nothing.
resolve(o, c) == [o EXCEPT ![c] = IF @ = "pending" THEN "resolved" ELSE @]
reject(o, c) == [o EXCEPT ![c] = IF @ = "pending" THEN "rejected" ELSE @]


(***************************************************************************)
(* Configuration.  A configuration value is a string; Unset stands for     *)
(* undefined, and both Unset and the empty string are falsy.               *)
(***************************************************************************)
Unset == "<undefined>"
Falsy(x) == x \in {Unset, ""}
Or(x, y) == IF Falsy(x) THEN y ELSE x

BaseProvider(config) ==
  [apiKey |-> config.apiKey, model |-> config.model, baseUrl |-> config.baseUrl,
   providerName |-> Or(config.providerName, "unknown")]

ClaudeProvider(config) ==
  BaseProvider([config EXCEPT !.providerName = "Claude"])

OpenAIProvider(config) ==
  BaseProvider([config EXCEPT !.providerName = "OpenAI"])

\* e is process.env at construction.
OllamaProvider(config, e) ==
  [apiKey |-> config.apiKey, baseUrl |-> config.baseUrl, providerName |-> "Ollama",
   textModel |-> e.OLLAMA_TEXT_MODEL, visionModel |-> e.OLLAMA_VISION_MODEL,
   model |-> Or(e.OLLAMA_TEXT_MODEL, e.OLLAMA_VISION_MODEL)]

\* The environment the stream() calls run in.
StreamEnv ==
  [ANTHROPIC_API_KEY |-> "sk-ant", ANTHROPIC_MODEL |-> Unset, ANTHROPIC_BASE_URL |-> Unset,
   OPENAI_API_KEY |-> "sk-oai", OPENAI_MODEL |-> Unset, OPENAI_BASE_URL |-> Unset,
   DEFAULT_AI_PROVIDER |-> <<>>,
   OLLAMA_TEXT_MODEL |-> "qwen3-14b", OLLAMA_VISION_MODEL |-> "qwen3-vl"]

\* No call made yet.
NoCall ==
  [op |-> "none", arg |-> <<>>, ok |-> TRUE, value |-> <<>>,
   error |-> [name |-> "none", message |-> <<>>], requests |-> <<>>, listed |-> <<>>]

\* No settings dialog is mounted.
NoDialog ==
  /\ fetched = <<>>
  /\ selectedProvider = <<>>
  /\ selectedModel = <<>>
  /\ props = <<>>
  /\ localCinematicMode = FALSE
  /\ localEdgeColor = ""
  /\ localEdgeStyle = ""
  /\ localEdgeCurve = ""
  /\ localStoryModeSpeed = 0
  /\ localSelectedProvider = <<>>
  /\ localSelectedModel = ""
  /\ deps = <<>>
  /\ rendered = FALSE
  /\ called = <<>>
  /\ picked = <<>>
  /\ switched = FALSE

\* The instances the calls run on.
Instances(kind) ==
  CASE kind = "claude" ->
         {ClaudeProvider([apiKey |-> "sk-ant", model |-> "claude-sonnet-4-5-20250929",
                          baseUrl |-> Unset, providerName |-> Unset])}
    [] kind = "openai" ->
         {OpenAIProvider([apiKey |-> "sk-oai", model |-> "gpt-4o",
                          baseUrl |-> Unset, providerName |-> Unset])}
    [] kind = "ollama" ->
         {OllamaProvider([apiKey |-> Unset, model |-> Unset,
                          baseUrl |-> "http://localhost:11434", providerName |-> Unset],
                         StreamEnv)}

(***************************************************************************)
(* formatPrompt.  The prompt is kept as the instruction template it uses   *)
(* and the article text put between the quotes after 'Article: '.          *)
(***************************************************************************)
\* finalText: the vision analysis, when there is one, goes before the text.
FinalText(text, visionAnalysis) ==
  IF Truthy(visionAnalysis)
    THEN Hdr1 \o visionAnalysis.s \o Hdr2 \o text.s
    ELSE text.s

\* A formatPrompt that cuts the article alone, before the vision analysis is
\* put in front of it.
ClaudeFormatPromptCutFirst(text, visionAnalysis, system) ==
  [instructions |-> "data.label",
   article |-> FinalText(JsStr(Substring0(text.s, MaxPromptChars)), visionAnalysis)]

ClaudeFormatPrompt(text, visionAnalysis, system) ==
  [instructions |-> "data.label",
   article |-> Substring0(FinalText(text, visionAnalysis), MaxPromptChars)]

OpenAIFormatPrompt(text, visionAnalysis, system) ==
  <<[role |-> "system",
     content |-> IF Truthy(system) THEN system.s ELSE DefaultPersona],
    [role |-> "user",
     content |-> [instructions |-> "data.name",
                  article |-> Substring0(FinalText(text, visionAnalysis), MaxPromptChars)]]>>

OllamaFormatPrompt(text, visionAnalysis, system) ==
  [instructions |-> "data.name",
   article |-> Substring0(FinalText(text, visionAnalysis), MaxPromptChars)]

\* The article text a provider's prompt carries.
Article(kind, prompt) ==
  IF kind = "openai" THEN prompt[2].content.article ELSE prompt.article

formatPrompt(kind, text, visionAnalysis, system) ==
  CASE kind = "claude" -> ClaudeFormatPrompt(text, visionAnalysis, system)
    [] kind = "openai" -> OpenAIFormatPrompt(text, visionAnalysis, system)
    [] kind = "ollama" -> OllamaFormatPrompt(text, visionAnalysis, system)

(***************************************************************************)
(* The request stream() sends upstream.                                    *)
(***************************************************************************)
ClaudeRequest(self, params) ==
  [url |-> IF Falsy(self.baseUrl) THEN "https://api.anthropic.com/v1/messages"
           ELSE "baseUrl/v1/messages",
   model |-> self.model,
   system |-> IF Truthy(params.system) THEN params.system.s ELSE DefaultPersona,
   prompt |-> ClaudeFormatPrompt(params.text, params.visionAnalysis, params.system)]

OpenAIRequest(self, params) ==
  [model |-> self.model,
   messages |-> OpenAIFormatPrompt(params.text, params.visionAnalysis, params.system)]

OllamaRequest(self, params) ==
  [url |-> "baseUrl/api/generate",
   model |-> self.textModel,
   prompt |-> OllamaFormatPrompt(params.text, params.visionAnalysis, params.system)]

NoRequest == [url |-> "none"]

\* The parameters the modelled calls are made with.
StreamParams ==
  {[text |-> JsStr(Str("text", 5)), visionAnalysis |-> Undefined, system |-> Undefined],
   [text |-> JsStr(Str("text", 5)), visionAnalysis |-> JsStr(Str("vision", 3)),
    system |-> JsStr(Str("custom", 6))]}


(***************************************************************************)
(* Upstream chunks.  A chunk of a response body is a sequence of tokens,   *)
(* each a kind and a value: the punctuation of JSON, white space, an       *)
(* object member, a line of an event stream, or the leading bytes of a     *)
(* character whose remaining bytes come with the next chunk.               *)
(***************************************************************************)
Tok(k, v) == [k |-> k, v |-> v]
LBrace == Tok("{", "")
RBrace == Tok("}", "")
Comma == Tok(",", "")
Newline == Tok("ws", "\n")
Response(v) == Tok("response", v)
Done(v) == Tok("done", v)

\* chunk.toString(): bytes that do not make up a whole character are
\* replaced by U+FFFD.
toString(chunk) ==
  [i \in DOMAIN chunk |->
     IF chunk[i].k = "partial" THEN Tok("U+FFFD", "") ELSE chunk[i]]

\* What the Anthropic endpoint sends: lines of an event stream.
ClaudeChunks ==
  {<<Tok("line", "event: content_block_delta"), Tok("line", "data: {delta}")>>,
   <<Tok("line", "event: ping")>>}

\* What the OpenAI SDK's iterator yields: choices[0].delta.content and
\* choices[0].finish_reason.
OpenAIChunks ==
  {[content |-> "a", finish |-> "null"],
   [content |-> "b", finish |-> "null"],
   [content |-> "", finish |-> "length"],
   [content |-> "a", finish |-> "stop"],
   [content |-> Unset, finish |-> "stop"]}

\* What Ollama's /api/generate sends: JSON objects, one a line, cut into
\* chunks wherever the transport cuts them.
OllamaChunks ==
  {<<LBrace, Response("a"), Comma, Done("false"), RBrace, Newline>>,
   <<LBrace, Response("b"), Comma, Done("true"), RBrace, Newline>>,
   <<LBrace, Response(""), Comma, Done("true"), RBrace, Newline>>,
   <<LBrace, Done("false"), RBrace>>,
   <<LBrace, Response("a"), Tok("partial", "e2 82")>>,
   <<LBrace, Response("a"), RBrace, Newline, LBrace, Done("true"), RBrace, Newline>>}

\* JSON.parse(data) for an object: white space apart, '{', members separated
\* by ',', '}' and nothing after it.  ok is FALSE where JSON.parse throws.
RECURSIVE Member(_, _)
Member(ms, key) ==
  IF ms = <<>> THEN Unset
  ELSE IF ms[Len(ms)].k = key THEN ms[Len(ms)].v
  ELSE Member(SubSeq(ms, 1, Len(ms) - 1), key)

JSONParse(data) ==
  LET t == SelectSeq(data, LAMBDA x : x.k # "ws")
      n == Len(t)
      inner == IF n >= 2 THEN SubSeq(t, 2, n - 1) ELSE <<>>
      wellFormed ==
        /\ n >= 2
        /\ t[1] = LBrace
        /\ t[n] = RBrace
        /\ \/ inner = <<>>
           \/ /\ Len(inner) % 2 = 1
              /\ \A i \in DOMAIN inner :
                   IF i % 2 = 1 THEN inner[i].k \in {"response", "done"}
                   ELSE inner[i] = Comma
      ms == SelectSeq(inner, LAMBDA x : x.k \in {"response", "done"})
  IN  IF wellFormed
        THEN [ok |-> TRUE, response |-> Member(ms, "response"), done |-> Member(ms, "done")]
        ELSE [ok |-> FALSE, response |-> Unset, done |-> Unset]

\* error.message of a failed body, and the text of a non-success response.
ErrorMessage == "socket hang up"
ErrorBody == "model not found"

(***************************************************************************)
(* The state after construction: one provider instance, no call made.      *)
(***************************************************************************)
NoPrompt == [t |-> "none"]

Init ==
  /\ provider \in Providers
  /\ inst \in Instances(provider)
  /\ phase = [c \in Calls |-> "idle"]
  /\ outcome = [c \in Calls |-> "none"]
  /\ ups = [c \in Calls |-> "none"]
  /\ up = [c \in Calls |-> <<>>]
  /\ sink = [c \in Calls |-> <<>>]
  /\ closed = [c \in Calls |-> FALSE]
  /\ req = [c \in Calls |-> NoRequest]
  /\ fpIn = NoPrompt
  /\ fpOut = NoPrompt
  /\ env = StreamEnv
  /\ ret = NoCall
  /\ seen = <<>>
  /\ NoDialog

\* The chunks read so far, over all calls.
RECURSIVE Total(_, _)
Total(f, S) ==
  IF S = {} THEN 0
  ELSE LET c == CHOOSE x \in S : TRUE IN Len(f[c]) + Total(f, S \ {c})

MoreData == Total(up, Calls) < MaxEvents

\* The caller's connection closes; no provider listens for it.
SinkClose(c) ==
  /\ phase[c] # "idle"
  /\ ~closed[c]
  /\ closed' = [closed EXCEPT ![c] = TRUE]
  /\ UNCHANGED <<provider, inst, phase, outcome, ups, up, sink, req, fpIn, fpOut, regVars, uiVars>>

(***************************************************************************)
(* ClaudeProvider.stream                                                   *)
(***************************************************************************)
\* stream() is called: the prompt is formatted and the request is sent.
ClaudeStream(c, params) ==
  /\ provider = "claude"
  /\ phase[c] = "idle"
  /\ phase' = [phase EXCEPT ![c] = "fetching"]
  /\ outcome' = [outcome EXCEPT ![c] = "pending"]
  /\ req' = [req EXCEPT ![c] = ClaudeRequest(inst, params)]
  /\ UNCHANGED <<provider, inst, ups, up, sink, closed, fpIn, fpOut, regVars, uiVars>>

\* await fetch(...) throws.
ClaudeFetchThrows(c) ==
  /\ provider = "claude"
  /\ phase[c] = "fetching"
  /\ phase' = [phase EXCEPT ![c] = "failed"]
  /\ ups' = [ups EXCEPT ![c] = "threw"]
  /\ outcome' = reject(outcome, c)
  /\ UNCHANGED <<provider, inst, up, sink, closed, req, fpIn, fpOut, regVars, uiVars>>

\* !aiResponse.ok: throw new Error(`Claude API error: ...`).
ClaudeNotOk(c) ==
  /\ provider = "claude"
  /\ phase[c] = "fetching"
  /\ phase' = [phase EXCEPT ![c] = "failed"]
  /\ ups' = [ups EXCEPT ![c] = "notok"]
  /\ outcome' = reject(outcome, c)
  /\ UNCHANGED <<provider, inst, up, sink, closed, req, fpIn, fpOut, regVars, uiVars>>

\* !aiResponse.body: throw new Error('No response body available ...').
ClaudeNoBody(c) ==
  /\ provider = "claude"
  /\ phase[c] = "fetching"
  /\ phase' = [phase EXCEPT ![c] = "failed"]
  /\ ups' = [ups EXCEPT ![c] = "nobody"]
  /\ outcome' = reject(outcome, c)
  /\ UNCHANGED <<provider, inst, up, sink, closed, req, fpIn, fpOut, regVars, uiVars>>

\* The response is a success with a body: the three listeners are attached.
ClaudeRelay(c) ==
  /\ provider = "claude"
  /\ phase[c] = "fetching"
  /\ phase' = [phase EXCEPT ![c] = "relaying"]
  /\ ups' = [ups EXCEPT ![c] = "open"]
  /\ UNCHANGED <<provider, inst, outcome, up, sink, closed, req, fpIn, fpOut, regVars, uiVars>>

\* body.on('data'): the chunk is written as it came.
ClaudeData(c, chunk) ==
  /\ provider = "claude"
  /\ ups[c] = "open"
  /\ MoreData
  /\ up' = [up EXCEPT ![c] = Append(@, chunk)]
  /\ sink' = writeRaw(sink, c, toString(chunk))
  /\ UNCHANGED <<provider, inst, phase, outcome, ups, closed, req, fpIn, fpOut, regVars, uiVars>>

\* body.on('end')
ClaudeEnd(c) ==
  /\ provider = "claude"
  /\ ups[c] = "open"
  /\ ups' = [ups EXCEPT ![c] = "ended"]
  /\ sink' = sendSSEComplete(sink, c)
  /\ outcome' = resolve(outcome, c)
  /\ UNCHANGED <<provider, inst, phase, up, closed, req, fpIn, fpOut, regVars, uiVars>>

\* body.on('error')
ClaudeError(c) ==
  /\ provider = "claude"
  /\ ups[c] = "open"
  /\ ups' = [ups EXCEPT ![c] = "errored"]
  /\ sink' = sendSSEComplete(sendError(sink, c, ErrorMessage), c)
  /\ outcome' = reject(outcome, c)
  /\ UNCHANGED <<provider, inst, phase, up, closed, req, fpIn, fpOut, regVars, uiVars>>


(***************************************************************************)
(* OpenAIProvider.stream                                                   *)
(***************************************************************************)
\* stream() is called: the messages are formatted and, inside the try,
\* client.chat.completions.create is awaited.
OpenAIStream(c, params) ==
  /\ provider = "openai"
  /\ phase[c] = "idle"
  /\ phase' = [phase EXCEPT ![c] = "fetching"]
  /\ outcome' = [outcome EXCEPT ![c] = "pending"]
  /\ req' = [req EXCEPT ![c] = OpenAIRequest(inst, params)]
  /\ UNCHANGED <<provider, inst, ups, up, sink, closed, fpIn, fpOut, regVars, uiVars>>

\* create() throws (no connection, a non-success response): the catch block.
OpenAICreateThrows(c) ==
  /\ provider = "openai"
  /\ phase[c] = "fetching"
  /\ phase' = [phase EXCEPT ![c] = "failed"]
  /\ ups' = [ups EXCEPT ![c] = "threw"]
  /\ sink' = sendSSEComplete(sendError(sink, c, ErrorBody), c)
  /\ outcome' = reject(outcome, c)
  /\ UNCHANGED <<provider, inst, up, closed, req, fpIn, fpOut, regVars, uiVars>>

\* create() returns the iterator: the for await loop starts.
OpenAIRelay(c) ==
  /\ provider = "openai"
  /\ phase[c] = "fetching"
  /\ phase' = [phase EXCEPT ![c] = "relaying"]
  /\ ups' = [ups EXCEPT ![c] = "open"]
  /\ UNCHANGED <<provider, inst, outcome, up, sink, closed, req, fpIn, fpOut, regVars, uiVars>>

\* A loop that does not look at finish_reason.
OpenAIChunkNoBreak(c, chunk) ==
  /\ provider = "openai"
  /\ ups[c] = "open"
  /\ MoreData
  /\ up' = [up EXCEPT ![c] = Append(@, chunk)]
  /\ sink' = IF ~Falsy(chunk.content)
               THEN sendContentDelta(sink, c, chunk.content) ELSE sink
  /\ UNCHANGED <<provider, inst, phase, outcome, ups, closed, req, fpIn, fpOut, regVars, uiVars>>

\* One turn of the loop; on finish_reason 'stop' the loop is left, the
\* completion line is sent and stream() returns.
OpenAIChunk(c, chunk) ==
  /\ provider = "openai"
  /\ ups[c] = "open"
  /\ MoreData
  /\ up' = [up EXCEPT ![c] = Append(@, chunk)]
  /\ LET delta == chunk.content
         sent == IF ~Falsy(delta) THEN sendContentDelta(sink, c, delta) ELSE sink
     IN  IF chunk.finish = "stop"
           THEN /\ sink' = sendSSEComplete(sent, c)
                /\ ups' = [ups EXCEPT ![c] = "stopped"]
                /\ outcome' = resolve(outcome, c)
           ELSE /\ sink' = sent
                /\ UNCHANGED <<ups, outcome>>
  /\ UNCHANGED <<provider, inst, phase, closed, req, fpIn, fpOut, regVars, uiVars>>

\* The iterator is exhausted: the loop ends, the completion line is sent.
OpenAIExhausted(c) ==
  /\ provider = "openai"
  /\ ups[c] = "open"
  /\ ups' = [ups EXCEPT ![c] = "ended"]
  /\ sink' = sendSSEComplete(sink, c)
  /\ outcome' = resolve(outcome, c)
  /\ UNCHANGED <<provider, inst, phase, up, closed, req, fpIn, fpOut, regVars, uiVars>>

\* A catch block that does not throw the error again.
OpenAIIterThrowsSwallowed(c) ==
  /\ provider = "openai"
  /\ ups[c] = "open"
  /\ ups' = [ups EXCEPT ![c] = "errored"]
  /\ sink' = sendSSEComplete(sendError(sink, c, ErrorMessage), c)
  /\ outcome' = resolve(outcome, c)
  /\ UNCHANGED <<provider, inst, phase, up, closed, req, fpIn, fpOut, regVars, uiVars>>

\* The iterator throws inside the loop: the catch block.
OpenAIIterThrows(c) ==
  /\ provider = "openai"
  /\ ups[c] = "open"
  /\ ups' = [ups EXCEPT ![c] = "errored"]
  /\ sink' = sendSSEComplete(sendError(sink, c, ErrorMessage), c)
  /\ outcome' = reject(outcome, c)
  /\ UNCHANGED <<provider, inst, phase, up, closed, req, fpIn, fpOut, regVars, uiVars>>

(***************************************************************************)
(* OllamaProvider.stream                                                   *)
(***************************************************************************)
OllamaStream(c, params) ==
  /\ provider = "ollama"
  /\ phase[c] = "idle"
  /\ phase' = [phase EXCEPT ![c] = "fetching"]
  /\ outcome' = [outcome EXCEPT ![c] = "pending"]
  /\ req' = [req EXCEPT ![c] = OllamaRequest(inst, params)]
  /\ UNCHANGED <<provider, inst, ups, up, sink, closed, fpIn, fpOut, regVars, uiVars>>

\* await fetch(...) throws.
OllamaFetchThrows(c) ==
  /\ provider = "ollama"
  /\ phase[c] = "fetching"
  /\ phase' = [phase EXCEPT ![c] = "failed"]
  /\ ups' = [ups EXCEPT ![c] = "threw"]
  /\ outcome' = reject(outcome, c)
  /\ UNCHANGED <<provider, inst, up, sink, closed, req, fpIn, fpOut, regVars, uiVars>>

\* !aiResponse.ok: this.sendError(res, error); return;
OllamaNotOk(c) ==
  /\ provider = "ollama"
  /\ phase[c] = "fetching"
  /\ phase' = [phase EXCEPT ![c] = "failed"]
  /\ ups' = [ups EXCEPT ![c] = "notok"]
  /\ sink' = sendError(sink, c, ErrorBody)
  /\ outcome' = resolve(outcome, c)
  /\ UNCHANGED <<provider, inst, up, closed, req, fpIn, fpOut, regVars, uiVars>>

\* The response is a success: the three listeners are attached.
OllamaRelay(c) ==
  /\ provider = "ollama"
  /\ phase[c] = "fetching"
  /\ phase' = [phase EXCEPT ![c] = "relaying"]
  /\ ups' = [ups EXCEPT ![c] = "open"]
  /\ UNCHANGED <<provider, inst, outcome, up, sink, closed, req, fpIn, fpOut, regVars, uiVars>>

\* A 'data' listener whose catch block is empty.
OllamaOnDataDropsUnparsed(sk, o, c, chunk) ==
  LET parsed == JSONParse(toString(chunk))
      sent == IF ~Falsy(parsed.response)
                THEN sendContentDelta(sk, c, parsed.response) ELSE sk
  IN  IF ~parsed.ok THEN [sink |-> sk, outcome |-> o]
      ELSE IF parsed.done = "true"
        THEN [sink |-> sendSSEComplete(sent, c), outcome |-> resolve(o, c)]
      ELSE [sink |-> sent, outcome |-> o]

\* A 'data' listener that writes [DONE] before the chunk's text.
OllamaOnDataDoneFirst(sk, o, c, chunk) ==
  LET data == toString(chunk)
      parsed == JSONParse(data)
      ended == IF parsed.done = "true" THEN sendSSEComplete(sk, c) ELSE sk
      sent == IF ~Falsy(parsed.response)
                THEN sendContentDelta(ended, c, parsed.response) ELSE ended
  IN  IF ~parsed.ok THEN [sink |-> writeRaw(sk, c, data), outcome |-> o]
      ELSE IF parsed.done = "true"
        THEN [sink |-> sent, outcome |-> resolve(o, c)]
      ELSE [sink |-> sent, outcome |-> o]

\* What the 'data' listener does with one chunk: the sinks and the promises
\* after it.
OllamaOnData(sk, o, c, chunk) ==
  LET data == toString(chunk)
      parsed == JSONParse(data)
      sent == IF ~Falsy(parsed.response)
                THEN sendContentDelta(sk, c, parsed.response) ELSE sk
  IN  IF ~parsed.ok THEN [sink |-> writeRaw(sk, c, data), outcome |-> o]
      ELSE IF parsed.done = "true"
        THEN [sink |-> sendSSEComplete(sent, c), outcome |-> resolve(o, c)]
      ELSE [sink |-> sent, outcome |-> o]

\* body.on('data')
OllamaData(c, chunk) ==
  /\ provider = "ollama"
  /\ ups[c] = "open"
  /\ MoreData
  /\ up' = [up EXCEPT ![c] = Append(@, chunk)]
  /\ sink' = OllamaOnData(sink, outcome, c, chunk).sink
  /\ outcome' = OllamaOnData(sink, outcome, c, chunk).outcome
  /\ UNCHANGED <<provider, inst, phase, ups, closed, req, fpIn, fpOut, regVars, uiVars>>

\* body.on('end'): resolve() and nothing else.
OllamaEnd(c) ==
  /\ provider = "ollama"
  /\ ups[c] = "open"
  /\ ups' = [ups EXCEPT ![c] = "ended"]
  /\ outcome' = resolve(outcome, c)
  /\ UNCHANGED <<provider, inst, phase, up, sink, closed, req, fpIn, fpOut, regVars, uiVars>>

\* body.on('error')
OllamaError(c) ==
  /\ provider = "ollama"
  /\ ups[c] = "open"
  /\ ups' = [ups EXCEPT ![c] = "errored"]
  /\ sink' = sendSSEComplete(sendError(sink, c, ErrorMessage), c)
  /\ outcome' = reject(outcome, c)
  /\ UNCHANGED <<provider, inst, phase, up, closed, req, fpIn, fpOut, regVars, uiVars>>

Next ==
  \E c \in Calls :
    \/ SinkClose(c)
    \/ \E params \in StreamParams : ClaudeStream(c, params)
    \/ ClaudeFetchThrows(c)
    \/ ClaudeNotOk(c)
    \/ ClaudeNoBody(c)
    \/ ClaudeRelay(c)
    \/ \E chunk \in ClaudeChunks : ClaudeData(c, chunk)
    \/ ClaudeEnd(c)
    \/ ClaudeError(c)
    \/ \E params \in StreamParams : OpenAIStream(c, params)
    \/ OpenAICreateThrows(c)
    \/ OpenAIRelay(c)
    \/ \E chunk \in OpenAIChunks : OpenAIChunk(c, chunk)
    \/ OpenAIExhausted(c)
    \/ OpenAIIterThrows(c)
    \/ \E params \in StreamParams : OllamaStream(c, params)
    \/ OllamaFetchThrows(c)
    \/ OllamaNotOk(c)
    \/ OllamaRelay(c)
    \/ \E chunk \in OllamaChunks : OllamaData(c, chunk)
    \/ OllamaEnd(c)
    \/ OllamaError(c)

Spec == Init /\ [][Next]_vars


(***************************************************************************)
(* SpecPrompt: formatPrompt applied to the arguments drawn in InitPrompt.  *)
(***************************************************************************)
Around(n) == (n - Slack) .. (n + Slack)

TextLens ==
  {0, 1} \cup Around(MaxPromptChars - Hdr1Len - Hdr2Len - 1) \cup Around(MaxPromptChars)

VisionLens == {1} \cup Around(MaxPromptChars - Hdr1Len)

PromptInputs ==
  [text : {JsStr(Str("text", n)) : n \in {k \in TextLens : k >= 0}},
   visionAnalysis : {Undefined, Null, JsStr(<<>>)}
                      \cup {JsStr(Str("vision", n)) : n \in {k \in VisionLens : k > 0}},
   system : {Undefined, JsStr(<<>>), JsStr(Str("custom", 6))}]

InitPrompt ==
  /\ provider \in Providers
  /\ inst \in Instances(provider)
  /\ phase = [c \in Calls |-> "idle"]
  /\ outcome = [c \in Calls |-> "none"]
  /\ ups = [c \in Calls |-> "none"]
  /\ up = [c \in Calls |-> <<>>]
  /\ sink = [c \in Calls |-> <<>>]
  /\ closed = [c \in Calls |-> FALSE]
  /\ req = [c \in Calls |-> NoRequest]
  /\ fpIn \in PromptInputs
  /\ fpOut = NoPrompt
  /\ env = StreamEnv
  /\ ret = NoCall
  /\ seen = <<>>
  /\ NoDialog

FormatPrompt ==
  /\ fpOut = NoPrompt
  /\ fpOut' = [t |-> "prompt",
               v |-> formatPrompt(provider, fpIn.text, fpIn.visionAnalysis, fpIn.system)]
  /\ UNCHANGED <<streamVars, fpIn, regVars, uiVars>>

NextPrompt == FormatPrompt

SpecPrompt == InitPrompt /\ [][NextPrompt]_vars

(***************************************************************************)
(* The registry.  A provider identifier is a string kept as the sequence   *)
(* of its characters, so that toLowerCase() and trim() do their work.      *)
(***************************************************************************)
UpperCase == <<"A", "B", "C", "D", "E", "F", "G", "H", "I", "J", "K", "L", "M",
               "N", "O", "P", "Q", "R", "S", "T", "U", "V", "W", "X", "Y", "Z">>
LowerCase == <<"a", "b", "c", "d", "e", "f", "g", "h", "i", "j", "k", "l", "m",
               "n", "o", "p", "q", "r", "s", "t", "u", "v", "w", "x", "y", "z">>
WhiteSpace == {" ", "\t", "\n", "\r"}

\* A toLowerCase() that leaves the string as it is.
toLowerCaseKeepsCase(s) == s

toLowerCase(s) ==
  [i \in DOMAIN s |->
     IF \E k \in DOMAIN UpperCase : UpperCase[k] = s[i]
       THEN LowerCase[CHOOSE k \in DOMAIN UpperCase : UpperCase[k] = s[i]]
       ELSE s[i]]

RECURSIVE trimStart(_)
trimStart(s) ==
  IF s # <<>> /\ Head(s) \in WhiteSpace THEN trimStart(Tail(s)) ELSE s

RECURSIVE trimEnd(_)
trimEnd(s) ==
  IF s # <<>> /\ s[Len(s)] \in WhiteSpace THEN trimEnd(SubSeq(s, 1, Len(s) - 1)) ELSE s

trim(s) == trimEnd(trimStart(s))

IdAnthropic == <<"a", "n", "t", "h", "r", "o", "p", "i", "c">>
IdClaude == <<"c", "l", "a", "u", "d", "e">>
IdOpenAI == <<"o", "p", "e", "n", "a", "i">>
IdGpt == <<"g", "p", "t">>
\* What a caller would call the Ollama backend.
IdOllama == <<"o", "l", "l", "a", "m", "a">>

\* What a failed call threw.
Error(message) == [name |-> "Error", message |-> message]
NoError == [name |-> "none", message |-> <<>>]
NoInstance == [providerName |-> "none"]

\* The message of create()'s error: the identifier as given, then the
\* supported identifiers.
UnknownProviderSupported(providerName) ==
  <<"Unknown provider: ", providerName, ". Supported: ",
    <<IdAnthropic, IdClaude, IdOpenAI, IdGpt>>>>
\* The message of getProviderConfig()'s error.
UnknownProvider(providerId) == <<"Unknown provider: ", providerId>>

\* ProviderFactory.create(providerName, config)
create(providerName, config) ==
  LET normalized == trim(toLowerCase(providerName)) IN
  CASE normalized \in {IdAnthropic, IdClaude} ->
         [ok |-> TRUE, kind |-> "claude", self |-> ClaudeProvider(config), error |-> NoError]
    [] normalized \in {IdOpenAI, IdGpt} ->
         [ok |-> TRUE, kind |-> "openai", self |-> OpenAIProvider(config), error |-> NoError]
    [] OTHER ->
         [ok |-> FALSE, kind |-> "none", self |-> NoInstance,
          error |-> Error(UnknownProviderSupported(providerName))]

ClaudeSupportedModels ==
  <<"claude-sonnet-4-5-20250929", "claude-3-5-sonnet-20241022",
    "claude-opus-4-20250514", "claude-3-opus-20240229">>

OpenAISupportedModels ==
  <<"gpt-4o", "gpt-4o-2024-11-20", "gpt-4o-mini", "o1", "o1-preview", "o1-mini",
    "gpt-4-turbo", "gpt-4-turbo-2024-04-09", "gpt-4", "gpt-4-0125-preview">>

\* A listing that puts OpenAI first.
getAvailableProvidersOpenAIFirst(e) ==
  (IF ~Falsy(e.OPENAI_API_KEY)
     THEN <<[id |-> IdOpenAI, name |-> "OpenAI", displayName |-> "OpenAI",
             models |-> OpenAISupportedModels,
             defaultModel |-> Or(e.OPENAI_MODEL, "gpt-4o"),
             configured |-> TRUE]>>
     ELSE <<>>)
  \o
  (IF ~Falsy(e.ANTHROPIC_API_KEY)
     THEN <<[id |-> IdAnthropic, name |-> "Anthropic", displayName |-> "Anthropic",
             models |-> ClaudeSupportedModels,
             defaultModel |-> Or(e.ANTHROPIC_MODEL, "claude-sonnet-4-5-20250929"),
             configured |-> TRUE]>>
     ELSE <<>>)

\* A listing whose default models are the hard-coded ones, whatever the
\* environment's overrides.
getAvailableProvidersFixedDefaults(e) ==
  (IF ~Falsy(e.ANTHROPIC_API_KEY)
     THEN <<[id |-> IdAnthropic, name |-> "Anthropic", displayName |-> "Anthropic",
             models |-> ClaudeSupportedModels,
             defaultModel |-> "claude-sonnet-4-5-20250929",
             configured |-> TRUE]>>
     ELSE <<>>)
  \o
  (IF ~Falsy(e.OPENAI_API_KEY)
     THEN <<[id |-> IdOpenAI, name |-> "OpenAI", displayName |-> "OpenAI",
             models |-> OpenAISupportedModels,
             defaultModel |-> "gpt-4o",
             configured |-> TRUE]>>
     ELSE <<>>)

\* ProviderFactory.getAvailableProviders(), reading the environment e.
getAvailableProviders(e) ==
  (IF ~Falsy(e.ANTHROPIC_API_KEY)
     THEN <<[id |-> IdAnthropic, name |-> "Anthropic", displayName |-> "Anthropic",
             models |-> ClaudeSupportedModels,
             defaultModel |-> Or(e.ANTHROPIC_MODEL, "claude-sonnet-4-5-20250929"),
             configured |-> TRUE]>>
     ELSE <<>>)
  \o
  (IF ~Falsy(e.OPENAI_API_KEY)
     THEN <<[id |-> IdOpenAI, name |-> "OpenAI", displayName |-> "OpenAI",
             models |-> OpenAISupportedModels,
             defaultModel |-> Or(e.OPENAI_MODEL, "gpt-4o"),
             configured |-> TRUE]>>
     ELSE <<>>)

\* A getDefaultProvider() that hands the override back as it normalised it.
getDefaultProviderKeepsAlias(e) ==
  LET normalized == trim(toLowerCase(e.DEFAULT_AI_PROVIDER))
      providers == getAvailableProviders(e)
  IN  IF e.DEFAULT_AI_PROVIDER # <<>> /\ normalized \in {IdOpenAI, IdGpt, IdAnthropic, IdClaude}
        THEN <<normalized>>
      ELSE IF Len(providers) > 0 THEN <<providers[1].id>> ELSE <<>>

\* ProviderFactory.getDefaultProvider(), reading the environment e: the id
\* in a sequence of one, or the empty sequence for null.  DEFAULT_AI_PROVIDER
\* is a string of characters, empty when it is unset.
getDefaultProvider(e) ==
  LET normalized == trim(toLowerCase(e.DEFAULT_AI_PROVIDER))
      providers == getAvailableProviders(e)
  IN  IF e.DEFAULT_AI_PROVIDER # <<>> /\ normalized \in {IdOpenAI, IdGpt}
        THEN <<IdOpenAI>>
      ELSE IF e.DEFAULT_AI_PROVIDER # <<>> /\ normalized \in {IdAnthropic, IdClaude}
        THEN <<IdAnthropic>>
      ELSE IF Len(providers) > 0 THEN <<providers[1].id>> ELSE <<>>

\* A getProviderConfig() without the fallback models.
getProviderConfigNoFallback(providerId, e) ==
  LET normalized == trim(toLowerCase(providerId)) IN
  CASE normalized \in {IdAnthropic, IdClaude} ->
         [ok |-> TRUE, error |-> NoError,
          config |-> [apiKey |-> e.ANTHROPIC_API_KEY, model |-> e.ANTHROPIC_MODEL,
                      baseUrl |-> e.ANTHROPIC_BASE_URL, providerName |-> Unset]]
    [] normalized \in {IdOpenAI, IdGpt} ->
         [ok |-> TRUE, error |-> NoError,
          config |-> [apiKey |-> e.OPENAI_API_KEY, model |-> e.OPENAI_MODEL,
                      baseUrl |-> e.OPENAI_BASE_URL, providerName |-> Unset]]
    [] OTHER ->
         [ok |-> FALSE, error |-> Error(UnknownProvider(providerId)),
          config |-> [apiKey |-> Unset, model |-> Unset, baseUrl |-> Unset,
                      providerName |-> Unset]]

\* ProviderFactory.getProviderConfig(providerId), reading the environment e.
\* The object it returns has no providerName property.
getProviderConfig(providerId, e) ==
  LET normalized == trim(toLowerCase(providerId)) IN
  CASE normalized \in {IdAnthropic, IdClaude} ->
         [ok |-> TRUE, error |-> NoError,
          config |-> [apiKey |-> e.ANTHROPIC_API_KEY,
                      model |-> Or(e.ANTHROPIC_MODEL, "claude-sonnet-4-5-20250929"),
                      baseUrl |-> e.ANTHROPIC_BASE_URL, providerName |-> Unset]]
    [] normalized \in {IdOpenAI, IdGpt} ->
         [ok |-> TRUE, error |-> NoError,
          config |-> [apiKey |-> e.OPENAI_API_KEY,
                      model |-> Or(e.OPENAI_MODEL, "gpt-4o"),
                      baseUrl |-> e.OPENAI_BASE_URL, providerName |-> Unset]]
    [] OTHER ->
         [ok |-> FALSE, error |-> Error(UnknownProvider(providerId)),
          config |-> [apiKey |-> Unset, model |-> Unset, baseUrl |-> Unset,
                      providerName |-> Unset]]

\* BaseProvider.isConfigured(), which Claude and OpenAI inherit.
BaseIsConfigured(self) == ~Falsy(self.apiKey) /\ ~Falsy(self.model)

\* An isConfigured() for Ollama that keeps the base rule: a key and a model.
OllamaIsConfiguredBaseRule(self, e) == ~Falsy(self.apiKey) /\ ~Falsy(self.model)

\* OllamaProvider.isConfigured(): the models are read from process.env when
\* it is called.
OllamaIsConfigured(self, e) ==
  IF Falsy(self.baseUrl) THEN FALSE
  ELSE ~Falsy(e.OLLAMA_TEXT_MODEL) \/ ~Falsy(e.OLLAMA_VISION_MODEL)

isConfigured(kind, self, e) ==
  IF kind = "ollama" THEN OllamaIsConfigured(self, e) ELSE BaseIsConfigured(self)

getName(self) == self.providerName

(***************************************************************************)
(* analyzeVision.  The images argument is whatever the caller passes: an   *)
(* array of images, or undefined, null or a string.                        *)
(***************************************************************************)
GoodImage == [base64Data |-> "iVBORw0KGgo", mediaType |-> "image/png"]
NoDataImage == [base64Data |-> "", mediaType |-> "image/png"]
NoTypeImage == [base64Data |-> "iVBORw0KGgo", mediaType |-> Unset]
Images == {GoodImage, NoDataImage, NoTypeImage}

RECURSIVE SeqsUpTo(_, _)
SeqsUpTo(S, n) ==
  IF n = 0 THEN {<<>>}
  ELSE LET shorter == SeqsUpTo(S, n - 1) IN
       shorter \cup {Append(s, x) : s \in {t \in shorter : Len(t) = n - 1}, x \in S}

JsArray(items) == [t |-> "array", items |-> items]
ImagesArgs ==
  {[t |-> "undefined", items |-> <<>>], [t |-> "null", items |-> <<>>],
   [t |-> "string", items |-> <<>>]}
  \cup {JsArray(s) : s \in SeqsUpTo(Images, MaxImages)}

\* An image the message can carry.
WellFormed(image) == ~Falsy(image.base64Data) /\ ~Falsy(image.mediaType)

\* A check that lets the empty array through.
ImagesInvalidAllowsEmpty(images) == images.t # "array"

\* !images || !Array.isArray(images) || images.length === 0
ImagesInvalid(images) == images.t # "array" \/ Len(images.items) = 0

MissingImages == <<"Missing or invalid images array">>

buildVisionPrompt(articleText, imageCount) ==
  [imageCount |-> imageCount, context |-> Substring0(articleText, VisionContextChars)]

\* prompt || this.buildVisionPrompt(articleText, images.length)
VisionPrompt(images, articleText, prompt) ==
  IF Falsy(prompt) THEN buildVisionPrompt(articleText, Len(images.items)) ELSE prompt

RECURSIVE ClaudeImageBlocks(_)
ClaudeImageBlocks(items) ==
  IF items = <<>> THEN <<>>
  ELSE (IF WellFormed(Head(items))
          THEN <<[type |-> "image", media_type |-> Head(items).mediaType,
                  data |-> Head(items).base64Data]>>
          ELSE <<>>)
       \o ClaudeImageBlocks(Tail(items))

ClaudeBuildMessageContent(images, prompt) ==
  <<[type |-> "text", text |-> prompt]>> \o ClaudeImageBlocks(images.items)

RECURSIVE OpenAIImageBlocks(_)
OpenAIImageBlocks(items) ==
  IF items = <<>> THEN <<>>
  ELSE (IF WellFormed(Head(items))
          THEN <<[type |-> "image_url",
                  url |-> <<"data:", Head(items).mediaType, ";base64,",
                            Head(items).base64Data>>]>>
          ELSE <<>>)
       \o OpenAIImageBlocks(Tail(items))

OpenAIBuildMessageContent(images, prompt) ==
  <<[type |-> "text", text |-> prompt]>> \o OpenAIImageBlocks(images.items)

VisionModels == {"gpt-4o", "gpt-4o-2024-11-20", "gpt-4-turbo", "gpt-4-turbo-2024-04-09"}

\* A getVisionModel() that hands back the configured model whatever it is.
getVisionModelConfigured(self) == self.model

getVisionModel(self) == IF self.model \in VisionModels THEN self.model ELSE "gpt-4o"

\* What the upstream answers to the vision request: a completion with its
\* usage report, a completion that carries neither, or a failure.
VisionResponses ==
  {[ok |-> TRUE, hasText |-> TRUE, text |-> "The screenshot shows", tokensIn |-> 3,
    tokensOut |-> 2],
   [ok |-> TRUE, hasText |-> FALSE, text |-> "", tokensIn |-> 0, tokensOut |-> 0],
   [ok |-> FALSE, hasText |-> FALSE, text |-> "overloaded", tokensIn |-> 0,
    tokensOut |-> 0]}

\* What a call gave back: a value or an error, and the requests it sent
\* upstream on the way.
Returned(value, requests) ==
  [ok |-> TRUE, value |-> value, error |-> NoError, requests |-> requests]
Threw(error, requests) ==
  [ok |-> FALSE, value |-> <<>>, error |-> error, requests |-> requests]

VisionResult(response) ==
  [analysisText |-> IF response.hasText THEN response.text ELSE "",
   tokensUsed |-> response.tokensIn + response.tokensOut]

ClaudeAnalyzeVision(self, images, articleText, prompt, response) ==
  IF ImagesInvalid(images) THEN Threw(Error(MissingImages), <<>>)
  ELSE
    LET visionPrompt == VisionPrompt(images, articleText, prompt)
        messageContent == ClaudeBuildMessageContent(images, visionPrompt)
        request == [model |-> self.model, content |-> messageContent]
    IN IF response.ok THEN Returned(VisionResult(response), <<request>>)
       ELSE Threw(Error(<<response.text>>), <<request>>)

OpenAIAnalyzeVision(self, images, articleText, prompt, response) ==
  IF ImagesInvalid(images) THEN Threw(Error(MissingImages), <<>>)
  ELSE
    LET visionPrompt == VisionPrompt(images, articleText, prompt)
        messageContent == OpenAIBuildMessageContent(images, visionPrompt)
        request == [model |-> getVisionModel(self), content |-> messageContent]
    IN IF response.ok THEN Returned(VisionResult(response), <<request>>)
       ELSE Threw(Error(<<response.text>>), <<request>>)

Placeholder ==
  [analysisText |-> "Vision analysis is not supported with the current Ollama configuration.",
   confidence |-> "low"]

\* An analyzeVision for Ollama that checks its images as the others do.
OllamaAnalyzeVisionValidates(self, images, articleText) ==
  IF ImagesInvalid(images) THEN Threw(Error(MissingImages), <<>>)
  ELSE Returned(Placeholder, <<>>)

\* An analyzeVision for Ollama that puts the images to its vision model.
OllamaAnalyzeVisionAsksModel(self, images, articleText) ==
  Returned(Placeholder, <<[model |-> self.visionModel, content |-> images.items]>>)

OllamaAnalyzeVision(self, images, articleText) == Returned(Placeholder, <<>>)

(***************************************************************************)
(* The registry and the instances, as state machines over process.env,     *)
(* the instance last made and the call last made.                          *)
(*   SpecRegistry    the factory: the API keys and model overrides change, *)
(*                   providers are listed, configured and created.         *)
(*   SpecConfigured  isConfigured() on instances of the three classes      *)
(*                   while the Ollama model variables change.              *)
(*   SpecVision      analyzeVision() and getVisionModel() on instances of  *)
(*                   the three classes.                                    *)
(***************************************************************************)
Envs ==
  [ANTHROPIC_API_KEY : {Unset, "sk-ant"},
   ANTHROPIC_MODEL : {Unset, "claude-3-opus-20240229"},
   ANTHROPIC_BASE_URL : {Unset},
   OPENAI_API_KEY : {Unset, "sk-oai"},
   OPENAI_MODEL : {Unset, "gpt-4-0125-preview"},
   OPENAI_BASE_URL : {Unset},
   DEFAULT_AI_PROVIDER : {<<>>, <<"O", "p", "e", "n", "A", "I">>, <<"c", "l", "a", "u", "d", "e", " ">>,
                          IdOllama},
   OLLAMA_TEXT_MODEL : {Unset, "qwen3-14b"},
   OLLAMA_VISION_MODEL : {Unset, "qwen3-vl"}]
FactoryKeys ==
  {"ANTHROPIC_API_KEY", "ANTHROPIC_MODEL", "OPENAI_API_KEY", "OPENAI_MODEL",
   "DEFAULT_AI_PROVIDER"}
OllamaKeys == {"OLLAMA_TEXT_MODEL", "OLLAMA_VISION_MODEL"}
\* The environments that differ from e in the variables keys at most.
EnvsAround(e, keys) == {f \in Envs : \A k \in DOMAIN e \ keys : f[k] = e[k]}

\* The identifiers callers pass to the factory.
IdInputs ==
  {IdAnthropic, IdOpenAI, IdGpt,
   <<"C", "l", "a", "u", "d", "e">>,
   <<" ", "O", "P", "E", "N", "A", "I", " ">>,
   <<"G", "p", "t", "\n">>,
   IdOllama,
   <<"O", "l", "l", "a", "m", "a", " ">>,
   <<"o", "p", "e", "n", " ", "a", "i">>,
   <<>>}

\* Configurations a caller makes up itself.
ManualConfigs ==
  {[apiKey |-> "sk-test", model |-> m, baseUrl |-> Unset, providerName |-> Unset] :
     m \in {Unset, "gpt-4o-2024-11-20", "gpt-4o-mini"}}
  \cup {[apiKey |-> Unset, model |-> "gpt-4-turbo", baseUrl |-> Unset,
         providerName |-> "mine"]}

OllamaConfigs ==
  {[apiKey |-> k, model |-> Unset, baseUrl |-> b, providerName |-> Unset] :
     k \in {Unset, "ollama-key"}, b \in {Unset, "", "http://localhost:11434"}}

\* The article and the prompt analyzeVision is called with.
VisionTexts ==
  {[articleText |-> Str("article", VisionContextChars + Slack), prompt |-> Unset],
   [articleText |-> Str("article", VisionContextChars - Slack), prompt |-> Unset],
   [articleText |-> Str("article", VisionContextChars), prompt |-> "Describe the images"]}

\* The record of a call: what it was, its argument and what it gave back.
Call(op, arg, r, listed) ==
  [op |-> op, arg |-> arg, ok |-> r.ok, value |-> r.value, error |-> r.error,
   requests |-> r.requests, listed |-> listed]

\* No instance made, no call made, and no stream() call under way.
Fresh ==
  /\ phase = [c \in Calls |-> "idle"]
  /\ outcome = [c \in Calls |-> "none"]
  /\ ups = [c \in Calls |-> "none"]
  /\ up = [c \in Calls |-> <<>>]
  /\ sink = [c \in Calls |-> <<>>]
  /\ closed = [c \in Calls |-> FALSE]
  /\ req = [c \in Calls |-> NoRequest]
  /\ fpIn = NoPrompt
  /\ fpOut = NoPrompt
  /\ ret = NoCall
  /\ seen = <<>>

\* One of the variables keys of process.env is set, changed or deleted.
SetEnv(keys) ==
  /\ \E k \in keys :
       \E v \in {e[k] : e \in Envs} \ {env[k]} :
         env' = [env EXCEPT ![k] = v]
  /\ ret' = Call("setenv", <<>>, Returned(<<>>, <<>>), <<>>)
  /\ UNCHANGED <<streamVars, fpIn, fpOut, seen, uiVars>>

\* The outcome of a create(): the new instance on success; on failure no
\* instance is made and the caller keeps what it had.
Created(providerName, r, listed) ==
  /\ provider' = IF r.ok THEN r.kind ELSE provider
  /\ inst' = IF r.ok THEN r.self ELSE inst
  /\ seen' = IF r.ok THEN <<>> ELSE seen
  /\ ret' = Call("create", providerName,
                 IF r.ok THEN Returned(r.kind, <<>>) ELSE Threw(r.error, <<>>), listed)
  /\ UNCHANGED <<phase, outcome, ups, up, sink, closed, req, fpIn, fpOut, env, uiVars>>

\* ProviderFactory.create(providerName, config), the configuration being
\* the caller's own or the one getProviderConfig() gives for an identifier.
Create(providerName, config) ==
  Created(providerName, create(providerName, config), <<>>)

\* The round trip: a descriptor of getAvailableProviders() is taken and
\* create(d.id, getProviderConfig(d.id)) is called.
CreateListed ==
  \E i \in DOMAIN getAvailableProviders(env) :
    LET d == getAvailableProviders(env)[i]
        cfg == getProviderConfig(d.id, env)
    IN /\ cfg.ok
       /\ Created(d.id, create(d.id, cfg.config), <<d>>)

\* new OllamaProvider(config): no factory method makes one.
NewOllama(config) ==
  /\ provider' = "ollama"
  /\ inst' = OllamaProvider(config, env)
  /\ seen' = <<>>
  /\ ret' = Call("new", <<>>, Returned("ollama", <<>>), <<>>)
  /\ UNCHANGED <<phase, outcome, ups, up, sink, closed, req, fpIn, fpOut, env, uiVars>>

GetAvailableProviders ==
  /\ ret' = Call("getAvailableProviders", <<>>,
                 Returned(getAvailableProviders(env), <<>>), <<>>)
  /\ UNCHANGED <<streamVars, fpIn, fpOut, env, seen, uiVars>>

GetProviderConfig(providerId) ==
  /\ LET r == getProviderConfig(providerId, env) IN
       ret' = Call("getProviderConfig", providerId,
                   IF r.ok THEN Returned(r.config, <<>>) ELSE Threw(r.error, <<>>), <<>>)
  /\ UNCHANGED <<streamVars, fpIn, fpOut, env, seen, uiVars>>

GetDefaultProvider ==
  /\ ret' = Call("getDefaultProvider", <<>>, Returned(getDefaultProvider(env), <<>>), <<>>)
  /\ UNCHANGED <<streamVars, fpIn, fpOut, env, seen, uiVars>>

\* create(providerId, getProviderConfig(providerId)).isConfigured()
CreateIsConfigured(providerId) ==
  LET cfg == getProviderConfig(providerId, env)
      r == create(providerId, cfg.config)
  IN  /\ cfg.ok
      /\ r.ok
      /\ provider' = r.kind
      /\ inst' = r.self
      /\ seen' = <<isConfigured(r.kind, r.self, env)>>
      /\ ret' = Call("create.isConfigured", providerId,
                     Returned(isConfigured(r.kind, r.self, env), <<>>), <<>>)
      /\ UNCHANGED <<phase, outcome, ups, up, sink, closed, req, fpIn, fpOut, env, uiVars>>

IsConfigured ==
  /\ provider # "none"
  /\ LET b == isConfigured(provider, inst, env) IN
       /\ ret' = Call("isConfigured", <<>>, Returned(b, <<>>), <<>>)
       /\ seen' = IF seen = <<>> THEN <<b>> ELSE seen
  /\ UNCHANGED <<streamVars, fpIn, fpOut, env, uiVars>>

GetVisionModel ==
  /\ provider = "openai"
  /\ ret' = Call("getVisionModel", <<>>, Returned(getVisionModel(inst), <<>>), <<>>)
  /\ UNCHANGED <<streamVars, fpIn, fpOut, env, seen, uiVars>>

analyzeVision(kind, self, images, articleText, prompt, response) ==
  CASE kind = "claude" -> ClaudeAnalyzeVision(self, images, articleText, prompt, response)
    [] kind = "openai" -> OpenAIAnalyzeVision(self, images, articleText, prompt, response)
    [] kind = "ollama" -> OllamaAnalyzeVision(self, images, articleText)

AnalyzeVision(images, text, response) ==
  /\ provider # "none"
  /\ ret' = Call("analyzeVision", images,
                 analyzeVision(provider, inst, images, text.articleText, text.prompt,
                               response), <<>>)
  /\ UNCHANGED <<streamVars, fpIn, fpOut, env, seen, uiVars>>

InitRegistry ==
  /\ Fresh
  /\ provider = "none"
  /\ inst = NoInstance
  /\ env \in EnvsAround(StreamEnv, FactoryKeys)
  /\ NoDialog

\* The configurations the factory's callers make up: one with a key, one
\* without.
FactoryConfigs == {config \in ManualConfigs : config.model \in {"gpt-4o-mini", "gpt-4-turbo"}}

NextRegistry ==
  \/ SetEnv(FactoryKeys)
  \/ \E providerName \in IdInputs, config \in FactoryConfigs : Create(providerName, config)
  \/ CreateListed
  \/ GetAvailableProviders
  \/ \E providerId \in IdInputs : GetProviderConfig(providerId)
  \/ GetDefaultProvider
  \/ \E providerId \in IdInputs : CreateIsConfigured(providerId)

SpecRegistry == InitRegistry /\ [][NextRegistry]_vars

InitConfigured ==
  /\ Fresh
  /\ provider = "none"
  /\ inst = NoInstance
  /\ env \in EnvsAround(StreamEnv, OllamaKeys)
  /\ NoDialog

\* The identifiers the Claude and OpenAI instances are made with.
ConfiguredIds == {IdClaude, IdOpenAI}

NextConfigured ==
  \/ SetEnv(OllamaKeys)
  \/ \E providerName \in ConfiguredIds, config \in ManualConfigs : Create(providerName, config)
  \/ CreateListed
  \/ \E config \in OllamaConfigs : NewOllama(config)
  \/ IsConfigured
  \/ \E c \in Calls, params \in StreamParams : OllamaStream(c, params)

SpecConfigured == InitConfigured /\ [][NextConfigured]_vars

\* The instances analyzeVision() is called on.
VisionInstances(kind) ==
  CASE kind = "claude" -> {ClaudeProvider(config) : config \in ManualConfigs}
    [] kind = "openai" ->
         {OpenAIProvider([apiKey |-> "sk-oai", model |-> m, baseUrl |-> Unset,
                          providerName |-> Unset]) :
            m \in {OpenAISupportedModels[i] : i \in DOMAIN OpenAISupportedModels}
                  \cup {Unset, "claude-3-opus-20240229"}}
    [] kind = "ollama" -> {OllamaProvider(config, StreamEnv) : config \in OllamaConfigs}

InitVision ==
  /\ Fresh
  /\ provider \in Providers
  /\ inst \in VisionInstances(provider)
  /\ env = StreamEnv
  /\ NoDialog

NextVision ==
  \/ GetVisionModel
  \/ \E images \in ImagesArgs, text \in VisionTexts, response \in VisionResponses :
       AnalyzeVision(images, text, response)

SpecVision == InitVision /\ [][NextVision]_vars

(***************************************************************************)
(* The settings dialog.  SettingsDialog is a React component that calls    *)
(* the hook useProviderConfig.  A step of the user or of the parent        *)
(* changes state and leaves a render waiting; Commit is that render's      *)
(* commit, which runs the effects whose dependencies changed, all with the *)
(* values of that render, and applies their state updates together.  The   *)
(* user and the parent act only when no render is waiting.                 *)
(*                                                                         *)
(* Provider identifiers are strings of characters as in the registry; a    *)
(* value that may be null or undefined is a sequence of at most one value. *)
(* Model names are strings, '' the empty one.                              *)
(***************************************************************************)

\* The body of GET /api/providers when the backend runs in environment e.
ProvidersResponse(e) ==
  [providers |-> getAvailableProviders(e),
   defaultProvider |-> getDefaultProvider(e),
   hasConfiguredProviders |-> Len(getAvailableProviders(e)) > 0]

\* array.includes(x)
includes(array, x) == \E i \in DOMAIN array : array[i] = x

\* array.find(p => p.id === id): the element in a sequence of one, or <<>>.
findById(array, id) ==
  LET I == {i \in DOMAIN array : <<array[i].id>> = id} IN
  IF I = {} THEN <<>> ELSE <<array[CHOOSE i \in I : \A j \in I : i <= j]>>

\* array.find(p => p.models.includes(model))
findByModel(array, model) ==
  LET I == {i \in DOMAIN array : includes(array[i].models, model)} IN
  IF I = {} THEN <<>> ELSE <<array[CHOOSE i \in I : \A j \in I : i <= j]>>

\* A nullable provider identifier, and a nullable model name, that is
\* neither null, undefined nor ''.
Given(x) == x # <<>> /\ x[1] # <<>>
GivenModel(x) == x # <<>> /\ x[1] # ""

\* What useProviderConfig returns, from the query's data d and the state
\* sp, sm of the render.
hookProviders(d) == IF d = <<>> THEN <<>> ELSE d[1].providers

currentProvider(d, sp) ==
  IF Given(sp) THEN sp
  ELSE IF d # <<>> /\ Given(d[1].defaultProvider) THEN d[1].defaultProvider
  ELSE IF Len(hookProviders(d)) > 0 THEN <<hookProviders(d)[1].id>>
  ELSE <<>>

providerData(d, sp) == findById(hookProviders(d), currentProvider(d, sp))

currentModel(d, sp, sm) ==
  IF GivenModel(sm) THEN sm[1]
  ELSE IF providerData(d, sp) # <<>> THEN providerData(d, sp)[1].defaultModel
  ELSE ""

availableModels(d, sp) ==
  IF providerData(d, sp) # <<>> THEN providerData(d, sp)[1].models ELSE <<>>

\* The hook's first effect: the default provider and its model are selected
\* once the data holds a provider and none is selected.
AutoSelectEffect(d, sp, sm) ==
  IF d # <<>> /\ Len(d[1].providers) > 0 /\ ~Given(sp)
    THEN LET defaultProvider == IF Given(d[1].defaultProvider)
                                  THEN d[1].defaultProvider
                                  ELSE <<d[1].providers[1].id>>
             found == findById(d[1].providers, defaultProvider)
         IN  [selectedProvider |-> defaultProvider,
              selectedModel |-> IF found # <<>> THEN <<found[1].defaultModel>> ELSE sm]
    ELSE [selectedProvider |-> sp, selectedModel |-> sm]

\* The hook's second effect: the model becomes the default model of the
\* selected provider.  sp is the provider of the render, sm the model as
\* the first effect left it.
ProviderChangeEffect(d, sp, sm) ==
  IF Given(sp) /\ d # <<>> /\ findById(d[1].providers, sp) # <<>>
    THEN <<findById(d[1].providers, sp)[1].defaultModel>>
    ELSE sm

\* The local state of the dialog as a record.
Local ==
  [cinematicMode |-> localCinematicMode, edgeColor |-> localEdgeColor,
   edgeStyle |-> localEdgeStyle, edgeCurve |-> localEdgeCurve,
   storyModeSpeed |-> localStoryModeSpeed,
   selectedProvider |-> localSelectedProvider, selectedModel |-> localSelectedModel]

\* The settings among the props p.
SettingsOf(p) ==
  [cinematicMode |-> p.cinematicMode, edgeColor |-> p.edgeColor,
   edgeStyle |-> p.edgeStyle, edgeCurve |-> p.edgeCurve,
   storyModeSpeed |-> p.storyModeSpeed,
   selectedProvider |-> p.selectedProvider, selectedModel |-> p.selectedModel]

\* The dialog's effect: the local values become the props; the provider and
\* the model fall back to the hook's, and to the first provider's default
\* when the model is empty or no provider lists it.
DialogEffect(p, d, sp, sm) ==
  LET defaultProvider == currentProvider(d, sp)
      providerToUse == IF p.selectedProvider # <<>> THEN p.selectedProvider
                       ELSE IF Given(defaultProvider) THEN defaultProvider[1]
                       ELSE <<>>
      modelToUse == IF p.selectedModel # "" THEN p.selectedModel
                    ELSE currentModel(d, sp, sm)
      modelExists == findByModel(hookProviders(d), modelToUse) # <<>>
  IN  IF (modelToUse = "" \/ ~modelExists) /\ Len(hookProviders(d)) > 0
        THEN [SettingsOf(p) EXCEPT
                !.selectedProvider = hookProviders(d)[1].id,
                !.selectedModel = hookProviders(d)[1].defaultModel]
        ELSE [SettingsOf(p) EXCEPT
                !.selectedProvider = providerToUse,
                !.selectedModel = modelToUse]

\* The dependencies of the hook's two effects and of the dialog's effect.
\* While the data is undefined, providers is a new array at every render.
HookDeps == <<fetched, selectedProvider>>
DialogDeps ==
  <<props, currentProvider(fetched, selectedProvider),
    currentModel(fetched, selectedProvider, selectedModel), fetched>>

\* The value the model dropdown shows.
DropdownValue ==
  IF findByModel(hookProviders(fetched), localSelectedModel) # <<>>
    THEN localSelectedModel
  ELSE IF Len(hookProviders(fetched)) > 0 THEN hookProviders(fetched)[1].defaultModel
  ELSE ""

\* The items of the model dropdown.
DropdownItems ==
  UNION {{hookProviders(fetched)[i].models[j] :
            j \in DOMAIN hookProviders(fetched)[i].models} :
         i \in DOMAIN hookProviders(fetched)}

\* The local state becomes the record l.
SetLocal(l) ==
  /\ localCinematicMode' = l.cinematicMode
  /\ localEdgeColor' = l.edgeColor
  /\ localEdgeStyle' = l.edgeStyle
  /\ localEdgeCurve' = l.edgeCurve
  /\ localStoryModeSpeed' = l.storyModeSpeed
  /\ localSelectedProvider' = l.selectedProvider
  /\ localSelectedModel' = l.selectedModel

\* The rest of the program does not move while the dialog does.
DialogOnly ==
  UNCHANGED <<streamVars, fpIn, fpOut, regVars>>

\* The commit of the waiting render: the effects whose dependencies changed
\* run in the order of their declaration.
Commit ==
  /\ rendered
  /\ LET hookRuns == deps = <<>> \/ deps[1].hook # HookDeps
         dialogRuns == deps = <<>> \/ fetched = <<>> \/ deps[1].dialog # DialogDeps
         auto == IF hookRuns
                   THEN AutoSelectEffect(fetched, selectedProvider, selectedModel)
                   ELSE [selectedProvider |-> selectedProvider,
                         selectedModel |-> selectedModel]
         model == IF hookRuns
                    THEN ProviderChangeEffect(fetched, selectedProvider, auto.selectedModel)
                    ELSE selectedModel
         l == IF dialogRuns
                THEN DialogEffect(props, fetched, selectedProvider, selectedModel)
                ELSE Local
     IN  /\ selectedProvider' = auto.selectedProvider
         /\ selectedModel' = model
         /\ SetLocal(l)
         /\ rendered' = (<<auto.selectedProvider, model, l>>
                           # <<selectedProvider, selectedModel, Local>>)
  /\ deps' = <<[hook |-> HookDeps, dialog |-> DialogDeps]>>
  /\ called' = <<>>
  /\ UNCHANGED <<fetched, props, picked, switched>>
  /\ DialogOnly

\* The query resolves with the backend's answer.
Loaded ==
  /\ ~rendered
  /\ fetched = <<>>
  /\ fetched' = <<ProvidersResponse(env)>>
  /\ rendered' = TRUE
  /\ called' = <<>>
  /\ UNCHANGED <<selectedProvider, selectedModel, props, localVars, deps, picked, switched>>
  /\ DialogOnly

\* The parent renders the dialog with other props.
ParentRenders(p) ==
  /\ ~rendered
  /\ p # props
  /\ props' = p
  /\ rendered' = TRUE
  /\ called' = <<>>
  /\ picked' = <<>>
  /\ UNCHANGED <<hookVars, localVars, deps, switched>>
  /\ DialogOnly

\* A control of the open dialog changes one local value.
Edit(l) ==
  /\ ~rendered
  /\ props.open
  /\ l # Local
  /\ SetLocal(l)
  /\ rendered' = TRUE
  /\ called' = <<>>
  /\ UNCHANGED <<hookVars, props, deps, picked, switched>>
  /\ DialogOnly

SetLocalCinematicMode(checked) == Edit([Local EXCEPT !.cinematicMode = checked])
SetLocalStoryModeSpeed(newValue) == Edit([Local EXCEPT !.storyModeSpeed = newValue])
SetLocalEdgeColor(value) == Edit([Local EXCEPT !.edgeColor = value])
SetLocalEdgeStyle(value) == Edit([Local EXCEPT !.edgeStyle = value])
SetLocalEdgeCurve(value) == Edit([Local EXCEPT !.edgeCurve = value])

\* The model dropdown's onChange: the user picks an item other than the one
\* shown.
ModelOnChange(model) ==
  /\ ~rendered
  /\ props.open
  /\ model \in DropdownItems
  /\ model # DropdownValue
  /\ LET found == findByModel(hookProviders(fetched), model) IN
       /\ localSelectedModel' = model
       /\ localSelectedProvider' = IF found # <<>> THEN found[1].id ELSE localSelectedProvider
       /\ selectedProvider' = IF found # <<>> THEN <<found[1].id>> ELSE selectedProvider
       /\ switched' = (switched \/ found # <<>>)
  /\ picked' = <<model>>
  /\ rendered' = TRUE
  /\ called' = <<>>
  /\ UNCHANGED <<fetched, selectedModel, props, localCinematicMode, localEdgeColor,
                 localEdgeStyle, localEdgeCurve, localStoryModeSpeed, deps>>
  /\ DialogOnly

\* A parent callback invoked with an argument.
Callback(name, arg) == [name |-> name, arg |-> <<arg>>]

\* A handleSave that leaves the provider and the model to onSave alone.
handleSaveCallsSettingsOnly(l) ==
  <<Callback("onCinematicModeChange", l.cinematicMode),
    Callback("onEdgeColorChange", l.edgeColor),
    Callback("onEdgeStyleChange", l.edgeStyle),
    Callback("onEdgeCurveChange", l.edgeCurve),
    Callback("onStoryModeSpeedChange", l.storyModeSpeed),
    Callback("onSave", l)>>

\* The callbacks handleSave invokes, in order, the local state being l.
handleSave(l) ==
  <<Callback("onCinematicModeChange", l.cinematicMode),
    Callback("onEdgeColorChange", l.edgeColor),
    Callback("onEdgeStyleChange", l.edgeStyle),
    Callback("onEdgeCurveChange", l.edgeCurve),
    Callback("onStoryModeSpeedChange", l.storyModeSpeed),
    Callback("onProviderChange", l.selectedProvider),
    Callback("onModelChange", l.selectedModel),
    Callback("onSave", l)>>

\* The Save Settings button.
HandleSave ==
  /\ ~rendered
  /\ props.open
  /\ called' = handleSave(Local)
  /\ picked' = <<>>
  /\ UNCHANGED <<hookVars, props, localVars, deps, rendered, switched>>
  /\ DialogOnly

\* The local values handleCancel sets, the props being p.
handleCancel(p) == SettingsOf(p)

\* The Cancel button, and the dialog's own onClose.
HandleCancel ==
  /\ ~rendered
  /\ props.open
  /\ SetLocal(handleCancel(props))
  /\ called' = <<[name |-> "onClose", arg |-> <<>>]>>
  /\ rendered' = (handleCancel(props) # Local)
  /\ picked' = <<>>
  /\ UNCHANGED <<hookVars, props, deps, switched>>
  /\ DialogOnly

\* The environments the backend answers from: the keys, a model override
\* that is not among the supported models, and a default-provider override.
SettingsEnvs ==
  {e \in [ANTHROPIC_API_KEY : {Unset, "sk-ant"},
          ANTHROPIC_MODEL : {Unset, "claude-3-haiku-20240307"},
          ANTHROPIC_BASE_URL : {Unset},
          OPENAI_API_KEY : {Unset, "sk-oai"},
          OPENAI_MODEL : {Unset},
          OPENAI_BASE_URL : {Unset},
          DEFAULT_AI_PROVIDER : {<<>>, <<"O", "p", "e", "n", "A", "I">>},
          OLLAMA_TEXT_MODEL : {Unset},
          OLLAMA_VISION_MODEL : {Unset}] :
     e.ANTHROPIC_MODEL = Unset \/ e.ANTHROPIC_API_KEY # Unset}

\* The props the parent renders the dialog with.
PropsInputs ==
  {[open |-> o, cinematicMode |-> s.cinematicMode, edgeColor |-> s.edgeColor,
    edgeStyle |-> s.edgeStyle, edgeCurve |-> s.edgeCurve,
    storyModeSpeed |-> s.storyModeSpeed,
    selectedProvider |-> m.selectedProvider, selectedModel |-> m.selectedModel] :
     o \in BOOLEAN,
     s \in {[cinematicMode |-> FALSE, edgeColor |-> "default", edgeStyle |-> "solid",
             edgeCurve |-> "smooth", storyModeSpeed |-> 3]},
     m \in {[selectedProvider |-> <<>>, selectedModel |-> ""],
            [selectedProvider |-> IdAnthropic,
             selectedModel |-> "claude-sonnet-4-5-20250929"],
            [selectedProvider |-> IdOpenAI, selectedModel |-> "gpt-4o-mini"]}}

\* The models the user picks among the dropdown's items.
ModelPicks ==
  {"claude-sonnet-4-5-20250929", "claude-3-opus-20240229", "gpt-4o", "gpt-4o-mini"}

InitSettings ==
  /\ Fresh
  /\ provider = "none"
  /\ inst = NoInstance
  /\ env \in SettingsEnvs
  /\ props \in PropsInputs
  /\ fetched = <<>>
  /\ selectedProvider = <<>>
  /\ selectedModel = <<>>
  /\ localCinematicMode = props.cinematicMode
  /\ localEdgeColor = props.edgeColor
  /\ localEdgeStyle = props.edgeStyle
  /\ localEdgeCurve = props.edgeCurve
  /\ localStoryModeSpeed = props.storyModeSpeed
  /\ localSelectedProvider = props.selectedProvider
  /\ localSelectedModel = props.selectedModel
  /\ deps = <<>>
  /\ rendered = TRUE
  /\ called = <<>>
  /\ picked = <<>>
  /\ switched = FALSE

NextSettings ==
  \/ Commit
  \/ Loaded
  \/ \E p \in PropsInputs : ParentRenders(p)
  \/ \E checked \in BOOLEAN : SetLocalCinematicMode(checked)
  \/ \E newValue \in {1, 3} : SetLocalStoryModeSpeed(newValue)
  \/ \E value \in {"default", "white"} : SetLocalEdgeColor(value)
  \/ \E value \in {"solid", "dashed"} : SetLocalEdgeStyle(value)
  \/ \E value \in {"smooth", "straight", "step"} : SetLocalEdgeCurve(value)
  \/ \E model \in ModelPicks : ModelOnChange(model)
  \/ HandleSave
  \/ HandleCancel

SpecSettings == InitSettings /\ [][NextSettings]_vars

(***************************************************************************)
(* Properties.                                                             *)
(***************************************************************************)
Canonical == {"progress", "content_block_delta", "error", "[DONE]"}

Kinds(s) == [i \in DOMAIN s |-> s[i].kind]
Count(s, kind) == Cardinality({i \in DOMAIN s : s[i].kind = kind})
EndsWithErrorDone(s) ==
  /\ Len(s) >= 2
  /\ s[Len(s) - 1].kind = "error"
  /\ s[Len(s)].kind = "[DONE]"
Settled(c) == outcome[c] \in {"resolved", "rejected"}

DoneFrame == [kind |-> "[DONE]", text |-> "", raw |-> <<>>]
DeltaFrame(text) == [kind |-> "content_block_delta", text |-> text, raw |-> <<>>]
ErrorFrame(text) == [kind |-> "error", text |-> text, raw |-> <<>>]
RawFrame(data) == [kind |-> "raw", text |-> "", raw |-> data]

\* C1: the [DONE] marker is written to a call's sink at most once.
C1_DoneAtMostOnce ==
  \A c \in Calls : Count(sink[c], "[DONE]") <= 1

\* C2: a call that started relaying and has settled has written [DONE].
C2_DoneBeforeSettle ==
  \A c \in Calls :
    (phase[c] = "relaying" /\ Settled(c)) => Count(sink[c], "[DONE]") >= 1

\* C3: an error event is followed at once by [DONE]; it is never the last
\* thing written.
C3_ErrorThenDone ==
  \A c \in Calls : \A i \in DOMAIN sink[c] :
    sink[c][i].kind = "error" =>
      (i < Len(sink[c]) /\ sink[c][i + 1].kind = "[DONE]")

ResolvedByDoneChunk(c) ==
  /\ provider = "ollama"
  /\ \E i \in DOMAIN up[c] :
       LET parsed == JSONParse(toString(up[c][i]))
       IN  parsed.ok /\ parsed.done = "true"

C5_EarlyFailureThrowsUnwritten ==
  \A c \in Calls :
    phase[c] = "failed" => (outcome[c] = "rejected" /\ sink[c] = <<>>)

\* C6 as claimed: every write is a canonical frame.
C6_OnlyCanonicalFrames ==
  \A c \in Calls : \A i \in DOMAIN sink[c] : sink[c][i].kind \in Canonical

\* The chunks a provider passes on as text: Claude all of them, Ollama those
\* JSON.parse throws on, OpenAI none.
RECURSIVE PassedOn(_, _)
PassedOn(kind, chunks) ==
  IF chunks = <<>> \/ kind = "openai" THEN <<>>
  ELSE LET data == toString(Head(chunks))
       IN  (IF kind = "claude" \/ ~JSONParse(data).ok THEN <<data>> ELSE <<>>)
             \o PassedOn(kind, Tail(chunks))

RawOf(s) ==
  LET raws == SelectSeq(s, LAMBDA f : f.kind = "raw")
  IN  [i \in DOMAIN raws |-> raws[i].raw]

\* C6 as amended: every write is a content_block_delta event, an error
\* event, the [DONE] line, or the text of an upstream chunk as it came; the
\* chunks written as they came are, in order, every chunk for Claude, the
\* chunks that fail to parse as JSON for Ollama, and none for OpenAI.
C6_CanonicalOrChunkText ==
  \A c \in Calls :
    /\ \A i \in DOMAIN sink[c] :
         sink[c][i].kind \in {"content_block_delta", "error", "[DONE]", "raw"}
    /\ RawOf(sink[c]) = PassedOn(provider, up[c])

\* An Ollama sink that holds a content delta and a chunk written as it came.
C6_Witness ==
  \E c \in Calls :
    /\ provider = "ollama"
    /\ Count(sink[c], "content_block_delta") >= 1
    /\ Count(sink[c], "raw") >= 1

\* The chunks up to and including the first one with finish_reason 'stop'.
RECURSIVE UpToStop(_)
UpToStop(chunks) ==
  IF chunks = <<>> THEN <<>>
  ELSE IF Head(chunks).finish = "stop" THEN <<Head(chunks)>>
  ELSE <<Head(chunks)>> \o UpToStop(Tail(chunks))

\* One content delta for each chunk with a non-empty delta text.
RECURSIVE Deltas(_)
Deltas(chunks) ==
  IF chunks = <<>> THEN <<>>
  ELSE (IF Head(chunks).content \notin {Unset, ""}
          THEN <<DeltaFrame(Head(chunks).content)>> ELSE <<>>)
         \o Deltas(Tail(chunks))

\* C7: an OpenAI call whose upstream does not fail writes one content delta
\* for each chunk with a non-empty delta text, in order and unchanged, up to
\* and including the first chunk with finish_reason 'stop', then [DONE]
\* once, and nothing else; it reads no chunk after the stop chunk.
C7_OpenAIDeltasThenDone ==
  provider = "openai" =>
    \A c \in Calls :
      /\ ups[c] = "open" => sink[c] = Deltas(up[c])
      /\ ups[c] \in {"stopped", "ended"} =>
           /\ sink[c] = Deltas(UpToStop(up[c])) \o <<DoneFrame>>
           /\ UpToStop(up[c]) = up[c]
      /\ ups[c] = "stopped" <=>
           (up[c] # <<>> /\ up[c][Len(up[c])].finish = "stop")

\* An OpenAI call that read three chunks, one without text, the last the
\* stop chunk, and wrote two deltas and [DONE].
C7_Witness ==
  \E c \in Calls :
    /\ provider = "openai"
    /\ ups[c] = "stopped"
    /\ Len(up[c]) = 3
    /\ Kinds(sink[c]) = <<"content_block_delta", "content_block_delta", "[DONE]">>
    /\ sink[c][1].text # sink[c][2].text

\* C8: once the caller's connection has closed during the relay, no further
\* chunk is read from the upstream and nothing more is written to the sink.
C8_NoWorkAfterClose ==
  [][\A c \in Calls :
       (closed[c] /\ phase[c] = "relaying")
         => (up'[c] = up[c] /\ sink'[c] = sink[c])]_vars

\* What a call writes when it runs alone, from what its own upstream did.
RECURSIVE OllamaFrames(_)
OllamaFrames(chunks) ==
  IF chunks = <<>> THEN <<>>
  ELSE LET data == toString(Head(chunks))
           parsed == JSONParse(data)
       IN  (IF ~parsed.ok THEN <<RawFrame(data)>>
            ELSE (IF parsed.response \notin {Unset, ""}
                    THEN <<DeltaFrame(parsed.response)>> ELSE <<>>)
                 \o (IF parsed.done = "true" THEN <<DoneFrame>> ELSE <<>>))
             \o OllamaFrames(Tail(chunks))

RECURSIVE ClaudeFrames(_)
ClaudeFrames(chunks) ==
  IF chunks = <<>> THEN <<>>
  ELSE <<RawFrame(toString(Head(chunks)))>> \o ClaudeFrames(Tail(chunks))

SinkAlone(kind, chunks, st) ==
  LET failed == <<ErrorFrame(ErrorMessage), DoneFrame>>
  IN  CASE kind = "claude" ->
             ClaudeFrames(chunks)
               \o (CASE st = "ended" -> <<DoneFrame>>
                     [] st = "errored" -> failed
                     [] OTHER -> <<>>)
        [] kind = "openai" ->
             IF st = "threw" THEN <<ErrorFrame(ErrorBody), DoneFrame>>
             ELSE Deltas(chunks)
                    \o (CASE st \in {"ended", "stopped"} -> <<DoneFrame>>
                          [] st = "errored" -> failed
                          [] OTHER -> <<>>)
        [] kind = "ollama" ->
             IF st = "notok" THEN <<ErrorFrame(ErrorBody)>>
             ELSE OllamaFrames(chunks)
                    \o (IF st = "errored" THEN failed ELSE <<>>)

\* C9: with two calls running on one instance, each sink holds what its call
\* would have written alone, whatever the other call did, and the instance's
\* fields are those the constructor set.
C9_CallsDoNotInterfere ==
  /\ \A c \in Calls : sink[c] = SinkAlone(provider, up[c], ups[c])
  /\ inst \in Instances(provider)

\* Both calls have read from their upstreams and written to their sinks,
\* and neither upstream has ended.
C9_Witness ==
  /\ \A c \in Calls : ups[c] = "open" /\ up[c] # <<>> /\ sink[c] # <<>>
  /\ sink[1] # sink[2]

Min(a, b) == IF a < b THEN a ELSE b
Max(a, b) == IF a > b THEN a ELSE b

\* The first MaxPromptChars characters of the headers, the vision analysis
\* and the text, in that order, counted out piece by piece.
CombinedCut(v, t) ==
  Str("## Image Analysis Results", Min(Hdr1Len, MaxPromptChars))
    \o Str("vision", Min(v, Max(0, MaxPromptChars - Hdr1Len)))
    \o Str("## Article Text", Min(Hdr2Len, Max(0, MaxPromptChars - Hdr1Len - v)))
    \o Str("text", Min(t, Max(0, MaxPromptChars - Hdr1Len - v - Hdr2Len)))

\* C10: for every provider, the article text in the prompt is the first
\* 50,000 characters of header + vision analysis + header + text when the
\* vision analysis is a non-empty string, and the first 50,000 characters of
\* the text alone, without headers, when it is absent or empty.
C10_ArticleIsCombinedCut ==
  fpOut # NoPrompt =>
    LET v == StrLen(fpIn.visionAnalysis.s)
        t == StrLen(fpIn.text.s)
    IN  Article(provider, fpOut.v) =
          IF fpIn.visionAnalysis.t = "string" /\ v > 0
            THEN CombinedCut(v, t)
            ELSE Str("text", Min(t, MaxPromptChars))

\* A prompt whose vision analysis and text together pass the limit, so that
\* the cut falls inside the text.
C10_Witness ==
  /\ fpOut # NoPrompt
  /\ Truthy(fpIn.visionAnalysis)
  /\ StrLen(fpIn.text.s) <= MaxPromptChars
  /\ StrLen(FinalText(fpIn.text, fpIn.visionAnalysis)) > MaxPromptChars
  /\ \E i \in DOMAIN Article(provider, fpOut.v) :
       /\ Article(provider, fpOut.v)[i].src = "text"
       /\ Article(provider, fpOut.v)[i].len < StrLen(fpIn.text.s)

(***************************************************************************)
(* isConfigured().                                                         *)
(***************************************************************************)
\* C11: on an Ollama instance isConfigured() is true exactly when the
\* instance has a base endpoint and at least one of OLLAMA_TEXT_MODEL and
\* OLLAMA_VISION_MODEL is set when it is called: one model is enough, no
\* endpoint is always false, and the API key plays no part.
C11_OllamaEndpointAndOneModel ==
  (provider = "ollama" /\ ret.op = "isConfigured") =>
    /\ ret.value =
         (/\ inst.baseUrl \notin {Unset, ""}
          /\ \/ env.OLLAMA_TEXT_MODEL \notin {Unset, ""}
             \/ env.OLLAMA_VISION_MODEL \notin {Unset, ""})
    /\ inst.baseUrl \in {Unset, ""} => ret.value = FALSE

\* An Ollama instance with an endpoint, no API key and only a vision model,
\* which isConfigured() reports as configured.
C11_Witness ==
  /\ provider = "ollama"
  /\ ret.op = "isConfigured"
  /\ ret.value = TRUE
  /\ inst.apiKey = Unset
  /\ inst.textModel = Unset
  /\ inst.visionModel = "qwen3-vl"
  /\ env.OLLAMA_TEXT_MODEL = Unset

\* C12: every call of isConfigured() on an instance returns what the first
\* call on that instance returned, whatever happened to the environment
\* since the instance was made and between the calls.
C12_IsConfiguredIsPure ==
  ret.op = "isConfigured" => ret.value = seen[1]

(***************************************************************************)
(* analyzeVision().                                                        *)
(***************************************************************************)
\* The images argument is absent, not an array, or an empty array.
NoImages(images) == images.t # "array" \/ images.items = <<>>

\* C13: on a Claude or an OpenAI instance, analyzeVision with an absent,
\* non-array or empty images argument fails with the 'Missing or invalid
\* images array' error and has sent no request upstream.
C13_NoImagesFailsUnsent ==
  (provider \in {"claude", "openai"} /\ ret.op = "analyzeVision" /\ NoImages(ret.arg)) =>
    /\ ~ret.ok
    /\ ret.error = [name |-> "Error", message |-> <<"Missing or invalid images array">>]
    /\ ret.requests = <<>>

\* analyzeVision([]) on an OpenAI instance has failed.
C13_Witness ==
  /\ provider = "openai"
  /\ ret.op = "analyzeVision"
  /\ ret.arg = [t |-> "array", items |-> <<>>]
  /\ ~ret.ok

\* C14 as stated: on every provider, Ollama included, analyzeVision with
\* an empty or absent images argument fails.
C14_NoImagesFailsEverywhere ==
  (ret.op = "analyzeVision" /\ NoImages(ret.arg)) => ~ret.ok

\* C14, amended: analyzeVision with an empty or absent images argument
\* fails on a Claude and on an OpenAI instance; on an Ollama instance it
\* returns the placeholder result, as it does for every input.
C14_NoImagesFailsButOnOllama ==
  (ret.op = "analyzeVision" /\ NoImages(ret.arg)) =>
    IF provider = "ollama"
      THEN ret.ok /\ ret.value.confidence = "low"
      ELSE ~ret.ok

\* analyzeVision(undefined) on an Ollama instance has returned a result.
C14_Witness ==
  /\ provider = "ollama"
  /\ ret.op = "analyzeVision"
  /\ ret.arg.t = "undefined"
  /\ ret.ok

\* C15: on a Claude or an OpenAI instance, analyzeVision with a non-empty
\* images array holding an image without base64Data or without mediaType
\* fails with the invalid-input error, and no request goes upstream.
C15_MalformedImageFails ==
  (/\ provider \in {"claude", "openai"}
   /\ ret.op = "analyzeVision"
   /\ ret.arg.t = "array"
   /\ \E i \in DOMAIN ret.arg.items :
        ret.arg.items[i].base64Data \in {Unset, ""} \/ ret.arg.items[i].mediaType \in {Unset, ""})
  => (~ret.ok /\ ret.requests = <<>>)

\* C16: on an Ollama instance analyzeVision returns, for every input, the
\* same placeholder with confidence 'low' and a non-empty text; it never
\* fails and sends no request.
C16_OllamaPlaceholderAlways ==
  (provider = "ollama" /\ ret.op = "analyzeVision") =>
    /\ ret.ok
    /\ ret.value = Placeholder
    /\ ret.value.confidence = "low"
    /\ ret.value.analysisText # ""
    /\ ret.requests = <<>>

\* analyzeVision with one well-formed image on an Ollama instance that has
\* a vision model.
C16_Witness ==
  /\ provider = "ollama"
  /\ inst.visionModel = "qwen3-vl"
  /\ ret.op = "analyzeVision"
  /\ ret.arg = [t |-> "array", items |-> <<GoodImage>>]
  /\ ret.ok

\* The vision-capable models.
AllowList == {"gpt-4o", "gpt-4o-2024-11-20", "gpt-4-turbo", "gpt-4-turbo-2024-04-09"}

\* C17: on an OpenAI instance getVisionModel() returns the configured
\* model when it is in the allow-list and 'gpt-4o' otherwise, so always a
\* member of the allow-list; the request analyzeVision sends names that
\* model.
C17_VisionModelFromAllowList ==
  provider = "openai" =>
    LET expected == IF inst.model \in AllowList THEN inst.model ELSE "gpt-4o" IN
    /\ ret.op = "getVisionModel" => (ret.value = expected /\ ret.value \in AllowList)
    /\ (ret.op = "analyzeVision" /\ ret.requests # <<>>) =>
         /\ Len(ret.requests) = 1
         /\ ret.requests[1].model = expected

\* An instance configured with gpt-4-0125-preview has sent its vision
\* request with gpt-4o.
C17_Witness ==
  /\ provider = "openai"
  /\ inst.model = "gpt-4-0125-preview"
  /\ ret.op = "analyzeVision"
  /\ ret.requests # <<>>
  /\ ret.requests[1].model = "gpt-4o"

(***************************************************************************)
(* The registry.                                                           *)
(***************************************************************************)
\* C18: for every descriptor d of getAvailableProviders(),
\* create(d.id, getProviderConfig(d.id)) succeeds and the provider's
\* getName() is d.displayName.
C18_RoundTripKeepsName ==
  (ret.op = "create" /\ ret.listed # <<>>) =>
    (ret.ok /\ getName(inst) = ret.listed[1].displayName)

\* The spellings of the identifiers in IdInputs that name a backend.
CommercialSpellings == {IdAnthropic, <<"C", "l", "a", "u", "d", "e">>}
OpenAISpellings ==
  {IdOpenAI, IdGpt, <<" ", "O", "P", "E", "N", "A", "I", " ">>, <<"G", "p", "t", "\n">>}

\* C19: create() gives a Claude instance for any casing of 'anthropic' and
\* 'claude', with or without surrounding whitespace, and an OpenAI instance
\* for any such spelling of 'openai' and 'gpt'; every other identifier
\* fails with an error whose message holds the identifier as it was given
\* and the supported identifiers, and the failed call makes no instance.
C19_CreateResolvesSpellings ==
  /\ [](ret.op = "create" =>
          /\ ret.arg \in CommercialSpellings =>
               (ret.ok /\ provider = "claude" /\ inst.providerName = "Claude")
          /\ ret.arg \in OpenAISpellings =>
               (ret.ok /\ provider = "openai" /\ inst.providerName = "OpenAI")
          /\ ret.arg \notin CommercialSpellings \cup OpenAISpellings =>
               /\ ~ret.ok
               /\ ret.error.message[2] = ret.arg
               /\ ret.error.message[4] = <<IdAnthropic, IdClaude, IdOpenAI, IdGpt>>)
  /\ [][(ret'.op = "create" /\ ~ret'.ok) => (inst' = inst /\ provider' = provider)]_vars

\* create(' OPENAI ') has made an OpenAI instance.
C19_Witness ==
  /\ ret.op = "create"
  /\ ret.arg = <<" ", "O", "P", "E", "N", "A", "I", " ">>
  /\ ret.ok
  /\ provider = "openai"

\* C20: the registry knows the Ollama backend: create('ollama') gives an
\* Ollama instance and getProviderConfig('ollama') a configuration.
C20_OllamaIsRegistered ==
  /\ (ret.op = "create" /\ ret.arg = IdOllama) => (ret.ok /\ provider = "ollama")
  /\ (ret.op = "getProviderConfig" /\ ret.arg = IdOllama) => ret.ok

(***************************************************************************)
(* The registry's listing, default and configuration.                      *)
(***************************************************************************)
\* C21: getAvailableProviders() lists the anthropic descriptor exactly when
\* ANTHROPIC_API_KEY is present and the openai descriptor exactly when
\* OPENAI_API_KEY is, anthropic before openai, no id twice, each with
\* configured = true.
C21_ListedIffKeyInOrder ==
  ret.op = "getAvailableProviders" =>
    LET listed == ret.value IN
    /\ (\E i \in DOMAIN listed : listed[i].id = IdAnthropic)
         <=> env.ANTHROPIC_API_KEY \notin {Unset, ""}
    /\ (\E i \in DOMAIN listed : listed[i].id = IdOpenAI)
         <=> env.OPENAI_API_KEY \notin {Unset, ""}
    /\ \A i \in DOMAIN listed :
         listed[i].id \in {IdAnthropic, IdOpenAI} /\ listed[i].configured = TRUE
    /\ \A i, j \in DOMAIN listed :
         i < j => (listed[i].id = IdAnthropic /\ listed[j].id = IdOpenAI)

\* Both keys are present and both providers are listed.
C21_Witness ==
  /\ ret.op = "getAvailableProviders"
  /\ Len(ret.value) = 2
  /\ env.ANTHROPIC_API_KEY = "sk-ant"
  /\ env.OPENAI_API_KEY = "sk-oai"

\* C22: the id getDefaultProvider() returns, when it is not null, is the id
\* of a descriptor getAvailableProviders() lists in the same environment.
C22_DefaultIsListed ==
  (ret.op = "getDefaultProvider" /\ ret.value # <<>>) =>
    \E i \in DOMAIN getAvailableProviders(env) :
      getAvailableProviders(env)[i].id = ret.value[1]

\* The first provider of the listing for the keys that are present: the id
\* in a sequence of one, empty when no key is present.
FirstByKeys ==
  IF env.ANTHROPIC_API_KEY \notin {Unset, ""} THEN <<IdAnthropic>>
  ELSE IF env.OPENAI_API_KEY \notin {Unset, ""} THEN <<IdOpenAI>>
  ELSE <<>>

\* C23: getDefaultProvider() returns 'openai' for an override spelling
\* 'openai' or 'gpt' in any casing and 'anthropic' for one spelling
\* 'anthropic' or 'claude'; with the override unset or naming anything else
\* it returns the id of the first listed provider, and null when none is
\* listed.
C23_OverrideThenFirstListed ==
  ret.op = "getDefaultProvider" =>
    CASE env.DEFAULT_AI_PROVIDER = <<"O", "p", "e", "n", "A", "I">> ->
           ret.value = <<IdOpenAI>>
      [] env.DEFAULT_AI_PROVIDER = <<"c", "l", "a", "u", "d", "e", " ">> ->
           ret.value = <<IdAnthropic>>
      [] OTHER -> ret.value = FirstByKeys

\* The override 'claude ' has given the id 'anthropic'.
C23_Witness ==
  /\ ret.op = "getDefaultProvider"
  /\ env.DEFAULT_AI_PROVIDER = <<"c", "l", "a", "u", "d", "e", " ">>
  /\ ret.value = <<IdAnthropic>>

\* C26: create(id, getProviderConfig(id)).isConfigured() is true exactly
\* when getAvailableProviders() lists the descriptor of the backend id
\* names.
C26_ListedIffInstanceConfigured ==
  ret.op = "create.isConfigured" =>
    LET listed == getAvailableProviders(env)
        id == IF provider = "claude" THEN IdAnthropic ELSE IdOpenAI
    IN  ret.value <=> (\E i \in DOMAIN listed : listed[i].id = id)

\* An instance made for 'gpt' with OPENAI_API_KEY and no OPENAI_MODEL is
\* configured.
C26_Witness ==
  /\ ret.op = "create.isConfigured"
  /\ ret.arg = IdGpt
  /\ env.OPENAI_API_KEY = "sk-oai"
  /\ env.OPENAI_MODEL = Unset
  /\ ret.value = TRUE

\* C27: getProviderConfig(id) gives, for an id naming a backend, the
\* backend's model override when one is set and the hard-coded fallback
\* otherwise, never an empty model, and the same model as the defaultModel
\* of the backend's descriptor when it is listed; any other id fails with
\* the unknown-provider error.
C27_ConfigModelIsOverrideOrFallback ==
  ret.op = "getProviderConfig" =>
    LET listed == getAvailableProviders(env) IN
    CASE ret.arg \in {IdAnthropic, <<"C", "l", "a", "u", "d", "e">>} ->
           /\ ret.ok
           /\ ret.value.model =
                IF env.ANTHROPIC_MODEL \in {Unset, ""}
                  THEN "claude-sonnet-4-5-20250929" ELSE env.ANTHROPIC_MODEL
           /\ ret.value.model \notin {Unset, ""}
           /\ \A i \in DOMAIN listed :
                listed[i].id = IdAnthropic => listed[i].defaultModel = ret.value.model
      [] ret.arg \in {IdOpenAI, IdGpt, <<" ", "O", "P", "E", "N", "A", "I", " ">>,
                      <<"G", "p", "t", "\n">>} ->
           /\ ret.ok
           /\ ret.value.model =
                IF env.OPENAI_MODEL \in {Unset, ""} THEN "gpt-4o" ELSE env.OPENAI_MODEL
           /\ ret.value.model \notin {Unset, ""}
           /\ \A i \in DOMAIN listed :
                listed[i].id = IdOpenAI => listed[i].defaultModel = ret.value.model
      [] OTHER ->
           /\ ~ret.ok
           /\ ret.error.message = <<"Unknown provider: ", ret.arg>>

\* getProviderConfig('openai') has given the override model, and OpenAI is
\* listed.
C27_Witness ==
  /\ ret.op = "getProviderConfig"
  /\ ret.arg = IdOpenAI
  /\ env.OPENAI_API_KEY = "sk-oai"
  /\ env.OPENAI_MODEL = "gpt-4-0125-preview"
  /\ ret.value.model = "gpt-4-0125-preview"

(***************************************************************************)
(* stream(): Ollama's chunks, the system instruction, the last write.      *)
(***************************************************************************)
\* C24: when Ollama's 'data' listener gets a chunk that parses as a JSON
\* object, it writes one content delta with the response text if that is
\* non-empty, then [DONE] if done is true, and nothing else: the delta
\* before [DONE] when the chunk has both, no write when it has neither.
C24_ParsedChunkTranslated ==
  [][\A c \in Calls :
       (provider = "ollama" /\ up'[c] # up[c]) =>
         LET parsed == JSONParse(toString(up'[c][Len(up'[c])])) IN
         parsed.ok =>
           sink'[c] = sink[c]
             \o (IF parsed.response \notin {Unset, ""}
                   THEN <<[kind |-> "content_block_delta", text |-> parsed.response,
                           raw |-> <<>>]>>
                   ELSE <<>>)
             \o (IF parsed.done = "true"
                   THEN <<[kind |-> "[DONE]", text |-> "", raw |-> <<>>]>>
                   ELSE <<>>)]_vars

\* The chunk {"response":"b","done":true} came first: the delta 'b', then
\* [DONE].
C24_Witness ==
  \E c \in Calls :
    /\ provider = "ollama"
    /\ up[c] = <<<<LBrace, Response("b"), Comma, Done("true"), RBrace, Newline>>>>
    /\ sink[c] = <<DeltaFrame("b"), DoneFrame>>

\* The chunks JSON.parse throws on, as the upstream sent them.
RECURSIVE Unparsed(_)
Unparsed(chunks) ==
  IF chunks = <<>> THEN <<>>
  ELSE (IF JSONParse(toString(Head(chunks))).ok THEN <<>> ELSE <<Head(chunks)>>)
         \o Unparsed(Tail(chunks))

\* C25: the chunks Ollama's listener could not parse are in the sink byte
\* for byte as they arrived, in arrival order, none dropped.
C25_UnparsedChunksForwardedAsSent ==
  \A c \in Calls :
    provider = "ollama" => RawOf(sink[c]) = Unparsed(up[c])

\* The system instruction a request carries: a sequence of one, or the empty
\* sequence when no field of the payload holds one.
SystemCarried(kind, request) ==
  CASE kind = "claude" -> <<request.system>>
    [] kind = "openai" -> <<request.messages[1].content>>
    [] OTHER -> IF "system" \in DOMAIN request THEN <<request.system>> ELSE <<>>

\* The request a provider makes of the parameters.
RequestOf(kind, self, params) ==
  CASE kind = "claude" -> ClaudeRequest(self, params)
    [] kind = "openai" -> OpenAIRequest(self, params)
    [] OTHER -> OllamaRequest(self, params)

\* C28: the request stream() sends carries the caller's system instruction
\* when it gave one and the default persona when it gave none.
C28_SystemInstructionCarried ==
  \A c \in Calls :
    req[c] # NoRequest =>
      \E params \in StreamParams :
        /\ req[c] = RequestOf(provider, inst, params)
        /\ SystemCarried(provider, req[c]) =
             <<IF params.system.t = "string" /\ params.system.s # <<>>
                 THEN params.system.s ELSE DefaultPersona>>

\* C29: [DONE] is the last write: nothing is in a sink after it.
C29_NothingAfterDone ==
  \A c \in Calls :
    \A i \in DOMAIN sink[c] :
      sink[c][i].kind = "[DONE]" => i = Len(sink[c])

\* C30: a stream() call on an Ollama instance that isConfigured() reports as
\* configured sends a request whose model is defined.
C30_ConfiguredOllamaNamesModel ==
  [][\A c \in Calls :
       (/\ provider = "ollama"
        /\ req'[c] # req[c]
        /\ isConfigured(provider, inst, env))
       => req'[c].model \notin {Unset, ""}]_vars

\* C31: for every environment, the defaultModel of each descriptor that
\* getAvailableProviders() returns is one of that descriptor's models, so
\* the model the settings dialog shows as selected is one of the models it
\* offers.
C31_DefaultModelIsListed ==
  fetched # <<>> =>
    /\ fetched[1].providers = getAvailableProviders(env)
    /\ \A i \in DOMAIN fetched[1].providers :
         includes(fetched[1].providers[i].models, fetched[1].providers[i].defaultModel)
    /\ (~rendered /\ Len(fetched[1].providers) > 0) => DropdownValue \in DropdownItems

\* C32: a model picked in the dropdown stays the dialog's local selection
\* until Save or Cancel: after the onChange handler and through every
\* effect it sets off, while the parent's props stay as they are,
\* localSelectedModel is the picked model and localSelectedProvider is the
\* first provider whose models include it.
C32_PickedModelStays ==
  picked # <<>> =>
    /\ localSelectedModel = picked[1]
    /\ findByModel(hookProviders(fetched), picked[1]) # <<>>
    /\ localSelectedProvider = findByModel(hookProviders(fetched), picked[1])[1].id

\* The names and the arguments of the callbacks Save is to invoke when the
\* local values are l.
SaveNames ==
  <<"onCinematicModeChange", "onEdgeColorChange", "onEdgeStyleChange", "onEdgeCurveChange",
    "onStoryModeSpeedChange", "onProviderChange", "onModelChange", "onSave">>
SaveArgs(l) ==
  <<l.cinematicMode, l.edgeColor, l.edgeStyle, l.edgeCurve, l.storyModeSpeed,
    l.selectedProvider, l.selectedModel, l>>

\* C33: settings reach the parent on Save only.  A step that is neither
\* Save nor Cancel invokes no callback of the parent; Cancel invokes
\* onClose alone and leaves every local value equal to the prop of the same
\* name; Save invokes the seven change callbacks and onSave, each with the
\* local value, and leaves the local values as they are.
C33_ParentHearsOnSaveOnly ==
  [][/\ called' # <<>> => (HandleSave \/ HandleCancel)
     /\ HandleCancel =>
          /\ called' = <<[name |-> "onClose", arg |-> <<>>]>>
          /\ Local' = SettingsOf(props')
     /\ HandleSave =>
          /\ Len(called') = Len(SaveNames)
          /\ \A i \in DOMAIN SaveNames :
               /\ called'[i].name = SaveNames[i]
               /\ called'[i].arg = <<SaveArgs(Local)[i]>>
          /\ Local' = Local]_vars

\* Save is pressed on values the user has edited: the callbacks carry a
\* value other than the props'.
C33_Witness ==
  /\ Len(called) = Len(SaveNames)
  /\ called[Len(SaveNames)].name = "onSave"
  /\ called[Len(SaveNames)].arg = <<Local>>
  /\ Local.edgeCurve # props.edgeCurve
  /\ Local.selectedModel # props.selectedModel

\* The provider the backend's answer d makes the default: its
\* defaultProvider, or the first listed provider when that is null.
BackendDefault(d) ==
  IF Given(d.defaultProvider) THEN d.defaultProvider
  ELSE IF Len(d.providers) > 0 THEN <<d.providers[1].id>>
  ELSE <<>>

\* C34: in useProviderConfig, once the providers have loaded and the
\* effects have settled, a selected provider that is in the fetched list
\* has brought its defaultModel as the selected model; the returned
\* selectedProvider is the backend's defaultProvider, or the first listed
\* provider when that is null, until the user selects another; and the
\* returned selectedModel is one of the returned selectedProvider's models.
C34_HookSelectionSettles ==
  (fetched # <<>> /\ ~rendered) =>
    /\ findById(fetched[1].providers, selectedProvider) # <<>> =>
         selectedModel = <<findById(fetched[1].providers, selectedProvider)[1].defaultModel>>
    /\ ~switched => currentProvider(fetched, selectedProvider) = BackendDefault(fetched[1])
    /\ Given(currentProvider(fetched, selectedProvider)) =>
         includes(availableModels(fetched, selectedProvider),
                  currentModel(fetched, selectedProvider, selectedModel))

====
